---------------------------- MODULE Spec2Model ----------------------------
(***************************************************************************)
(* Document governance app: the compliance engine (ComplianceService) and  *)
(* the stores it reads.                                                    *)
(*                                                                         *)
(* Conventions.                                                            *)
(*   - A string that the code inspects character by character (a filename, *)
(*     an extension) is a sequence of one-character strings.               *)
(*   - A point in time is an integer number of seconds; Date.getTime() is  *)
(*     in milliseconds, so the code's divisor 1000*60*60*24 is MsPerDay    *)
(*     here divided by 1000 (DayLength).  All dates used are whole         *)
(*     seconds.                                                            *)
(*   - A JavaScript object with optional properties is a record whose      *)
(*     DOMAIN holds the properties that are present.                       *)
(*   - The message text of an issue is not modelled; nothing branches on   *)
(*     it.  The details object is.                                         *)
(***************************************************************************)
EXTENDS Integers, Sequences, FiniteSets, TLC

VARIABLES now, versions, call, result, documents, complianceIssues, runs, procs,
          timelineEvents, authSessions

vars ==
    <<now, versions, call, result, documents, complianceIssues, runs, procs,
      timelineEvents, authSessions>>

\* the document, issue, timeline event and session tables and the
\* invocations of runPeriodicCheck and processDocument under way
app == <<documents, complianceIssues, runs, procs, timelineEvents, authSessions>>

(***************************************************************************)
(* Policy configuration (config.compliance).                               *)
(***************************************************************************)
MaxFileSizeMB == 50

AllowedFileTypes ==
    << <<"p","d","f">>, <<"d","o","c">>, <<"d","o","c","x">>,
       <<"x","l","s">>, <<"x","l","s","x">>, <<"p","p","t">>,
       <<"p","p","t","x">>, <<"t","x","t">>, <<"c","s","v">> >>

DefaultMaxVersions == 50

\* 1000 * 60 * 60 * 24 milliseconds, in seconds
DayLength == 60 * 60 * 24

Null == [type |-> "null"]

Undefined == [kind |-> "undefined"]

(***************************************************************************)
(* Bounds of the model.                                                    *)
(***************************************************************************)
MaxClock == 2

MaxNameLen == 5

MaxVersionRows == 52

(***************************************************************************)
(* String helpers: String.prototype.toLowerCase, Array.prototype.includes, *)
(* String.prototype.replace('.', '').                                      *)
(***************************************************************************)
UpperCase ==
    <<"A","B","C","D","E","F","G","H","I","J","K","L","M",
      "N","O","P","Q","R","S","T","U","V","W","X","Y","Z">>

LowerCase ==
    <<"a","b","c","d","e","f","g","h","i","j","k","l","m",
      "n","o","p","q","r","s","t","u","v","w","x","y","z">>

ToLowerChar(c) ==
    IF \E i \in 1..Len(UpperCase) : UpperCase[i] = c
    THEN LowerCase[CHOOSE i \in 1..Len(UpperCase) : UpperCase[i] = c]
    ELSE c

toLowerCase(s) == [i \in 1..Len(s) |-> ToLowerChar(s[i])]

includes(list, x) == \E i \in 1..Len(list) : list[i] = x

\* s.replace('.', ''): drops the first '.' of s, if any
replaceFirstDot(s) ==
    IF \E i \in 1..Len(s) : s[i] = "."
    THEN LET k == CHOOSE i \in 1..Len(s) :
                     s[i] = "." /\ \A j \in 1..(i-1) : s[j] # "."
         IN  SubSeq(s, 1, k-1) \o SubSeq(s, k+1, Len(s))
    ELSE s

(***************************************************************************)
(* path.extname (POSIX): scans the path from its last character to its     *)
(* first.  Indices are the JavaScript ones (0-based, -1 for "none");       *)
(* path.charCodeAt(i) is path[i+1].                                        *)
(***************************************************************************)
RECURSIVE extnameScan(_, _, _)
extnameScan(path, i, st) ==
    IF i < 0 THEN st
    ELSE
      LET code == path[i+1] IN
      IF code = "/"
      THEN IF ~st.matchedSlash
           THEN [st EXCEPT !.startPart = i + 1]
           ELSE extnameScan(path, i - 1, st)
      ELSE
        LET s1 == IF st.end = -1
                  THEN [st EXCEPT !.matchedSlash = FALSE, !.end = i + 1]
                  ELSE st
            s2 == IF code = "."
                  THEN IF s1.startDot = -1
                       THEN [s1 EXCEPT !.startDot = i]
                       ELSE IF s1.preDotState # 1
                            THEN [s1 EXCEPT !.preDotState = 1]
                            ELSE s1
                  ELSE IF s1.startDot # -1
                       THEN [s1 EXCEPT !.preDotState = -1]
                       ELSE s1
        IN extnameScan(path, i - 1, s2)

extnameMutNoDotfile(path) ==
    LET st == extnameScan(path, Len(path) - 1,
                  [startDot |-> -1, startPart |-> 0, end |-> -1,
                   matchedSlash |-> TRUE, preDotState |-> 0])
    IN IF \/ st.startDot = -1
          \/ st.end = -1
       THEN <<>>
       ELSE SubSeq(path, st.startDot + 1, st.end)

extname(path) ==
    LET st == extnameScan(path, Len(path) - 1,
                  [startDot |-> -1, startPart |-> 0, end |-> -1,
                   matchedSlash |-> TRUE, preDotState |-> 0])
    IN IF \/ st.startDot = -1
          \/ st.end = -1
          \/ st.preDotState = 0
          \/ /\ st.preDotState = 1
             /\ st.startDot = st.end - 1
             /\ st.startDot = st.startPart + 1
       THEN <<>>
       ELSE SubSeq(path, st.startDot + 1, st.end)

(***************************************************************************)
(* ComplianceService: the checks.                                          *)
(***************************************************************************)
maxSizeBytes == MaxFileSizeMB * 1024 * 1024

checkFileSizeMutInclusive(size) ==
    IF size >= maxSizeBytes
    THEN [type |-> "file_too_large",
          severity |-> IF size >= maxSizeBytes * 2 THEN "critical" ELSE "high",
          details |-> [actualSize |-> size, maxSize |-> maxSizeBytes]]
    ELSE Null

checkFileSize(size) ==
    IF size > maxSizeBytes
    THEN [type |-> "file_too_large",
          severity |-> IF size > maxSizeBytes * 2 THEN "critical" ELSE "high",
          details |-> [actualSize |-> size, maxSize |-> maxSizeBytes]]
    ELSE Null

\* const ext = path.extname(filename).toLowerCase().replace('.', '')
fileExtMutNoLower(filename) == replaceFirstDot(extname(filename))

fileExt(filename) == replaceFirstDot(toLowerCase(extname(filename)))

checkFileTypeMutSeverity(filename) ==
    LET ext == fileExt(filename) IN
    IF ext = <<>>
    THEN [type |-> "disallowed_file_type", severity |-> "critical",
          details |-> [filename |-> filename]]
    ELSE IF ~includes(AllowedFileTypes, ext)
    THEN [type |-> "disallowed_file_type", severity |-> "high",
          details |-> [fileType |-> ext, allowedTypes |-> AllowedFileTypes]]
    ELSE Null

checkFileType(filename) ==
    LET ext == fileExt(filename) IN
    IF ext = <<>>
    THEN [type |-> "disallowed_file_type", severity |-> "high",
          details |-> [filename |-> filename]]
    ELSE IF ~includes(AllowedFileTypes, ext)
    THEN [type |-> "disallowed_file_type", severity |-> "critical",
          details |-> [fileType |-> ext, allowedTypes |-> AllowedFileTypes]]
    ELSE Null

\* !metadata.category, !metadata.confidentiality: absent or the empty string
falsyField(metadata, f) == f \notin DOMAIN metadata \/ metadata[f] = ""

missingCategory ==
    [type |-> "missing_metadata", severity |-> "low",
     details |-> [missingField |-> "category"]]

missingConfidentiality ==
    [type |-> "missing_metadata", severity |-> "medium",
     details |-> [missingField |-> "confidentiality"]]

checkMetadataMutOrder(metadata) ==
    IF metadata = Undefined
    THEN << [type |-> "missing_metadata", severity |-> "medium"] >>
    ELSE (IF falsyField(metadata, "confidentiality")
          THEN <<missingConfidentiality>> ELSE <<>>)
         \o
         (IF falsyField(metadata, "category")
          THEN <<missingCategory>> ELSE <<>>)

checkMetadataMutElse(metadata) ==
    IF metadata = Undefined
    THEN << [type |-> "missing_metadata", severity |-> "medium"] >>
    ELSE IF falsyField(metadata, "category")
         THEN <<missingCategory>>
         ELSE IF falsyField(metadata, "confidentiality")
              THEN <<missingConfidentiality>> ELSE <<>>

checkMetadata(metadata) ==
    IF metadata = Undefined
    THEN << [type |-> "missing_metadata", severity |-> "medium"] >>
    ELSE (IF falsyField(metadata, "category")
          THEN <<missingCategory>> ELSE <<>>)
         \o
         (IF falsyField(metadata, "confidentiality")
          THEN <<missingConfidentiality>> ELSE <<>>)

\* Math.floor((date.getTime() - now.getTime()) / (1000 * 60 * 60 * 24))
daysUntil(date, t) == (date - t) \div DayLength

abs(n) == IF n < 0 THEN -n ELSE n

checkRetentionMutExclusive(retentionDate, t) ==
    LET daysUntilExpiry == daysUntil(retentionDate, t) IN
    IF daysUntilExpiry < 0
    THEN [type |-> "expired_document", severity |-> "critical",
          details |-> [retentionDate |-> retentionDate,
                       daysExpired |-> abs(daysUntilExpiry)]]
    ELSE IF daysUntilExpiry < 30
    THEN [type |-> "retention_policy_violation", severity |-> "high",
          details |-> [retentionDate |-> retentionDate,
                       daysUntilExpiry |-> daysUntilExpiry]]
    ELSE Null

checkRetention(retentionDate, t) ==
    LET daysUntilExpiry == daysUntil(retentionDate, t) IN
    IF daysUntilExpiry < 0
    THEN [type |-> "expired_document", severity |-> "critical",
          details |-> [retentionDate |-> retentionDate,
                       daysExpired |-> abs(daysUntilExpiry)]]
    ELSE IF daysUntilExpiry <= 30
    THEN [type |-> "retention_policy_violation", severity |-> "high",
          details |-> [retentionDate |-> retentionDate,
                       daysUntilExpiry |-> daysUntilExpiry]]
    ELSE Null

\* expiryDate is Undefined or [date |-> t]
checkLinkExpiryMutZero(expiryDate, t) ==
    IF expiryDate = Undefined THEN Null
    ELSE
      LET daysUntilExpiry == daysUntil(expiryDate.date, t) IN
      IF daysUntilExpiry <= 0
      THEN [type |-> "link_expired", severity |-> "high",
            details |-> [expiryDate |-> expiryDate.date,
                         daysExpired |-> abs(daysUntilExpiry)]]
      ELSE IF daysUntilExpiry <= 7
      THEN [type |-> "link_expired", severity |-> "medium",
            details |-> [expiryDate |-> expiryDate.date,
                         daysUntilExpiry |-> daysUntilExpiry]]
      ELSE Null

checkLinkExpiry(expiryDate, t) ==
    IF expiryDate = Undefined THEN Null
    ELSE
      LET daysUntilExpiry == daysUntil(expiryDate.date, t) IN
      IF daysUntilExpiry < 0
      THEN [type |-> "link_expired", severity |-> "high",
            details |-> [expiryDate |-> expiryDate.date,
                         daysExpired |-> abs(daysUntilExpiry)]]
      ELSE IF daysUntilExpiry <= 7
      THEN [type |-> "link_expired", severity |-> "medium",
            details |-> [expiryDate |-> expiryDate.date,
                         daysUntilExpiry |-> daysUntilExpiry]]
      ELSE Null

\* versionRepository.getVersionCount: SELECT COUNT(*) ... WHERE document_id = ?
getVersionCount(rows, documentId) ==
    Cardinality({v \in rows : v.documentId = documentId})

checkVersionCountMutInclusive(rows, documentId, maxVersions) ==
    LET count == getVersionCount(rows, documentId) IN
    IF count >= maxVersions
    THEN [type |-> "version_limit_exceeded", severity |-> "medium",
          details |-> [versionCount |-> count, maxVersions |-> maxVersions]]
    ELSE Null

checkVersionCount(rows, documentId, maxVersions) ==
    LET count == getVersionCount(rows, documentId) IN
    IF count > maxVersions
    THEN [type |-> "version_limit_exceeded", severity |-> "medium",
          details |-> [versionCount |-> count, maxVersions |-> maxVersions]]
    ELSE Null

(***************************************************************************)
(* ComplianceService.checkDocument: the four checks in order, each issue   *)
(* pushed and its deduction taken from the running score.                  *)
(***************************************************************************)
sizeDeduction(issue) ==
    IF issue.severity = "critical" THEN 40
    ELSE IF issue.severity = "high" THEN 25 ELSE 10

typeDeductionMutBonus(issue) ==
    IF issue.severity = "critical" THEN 50 ELSE -20

typeDeduction(issue) ==
    IF issue.severity = "critical" THEN 50
    ELSE IF issue.severity = "high" THEN 30 ELSE 15

metadataDeductionMutMedium(issue) ==
    IF issue.severity = "high" \/ issue.severity = "medium" THEN 10 ELSE 5

metadataDeduction(issue) == IF issue.severity = "high" THEN 10 ELSE 5

retentionDeduction(issue) == IF issue.severity = "critical" THEN 30 ELSE 20

\* issues.filter(i => i.severity === 'critical').length === 0
passedOfMutHigh(issues) ==
    Len(SelectSeq(issues,
          LAMBDA i : i.severity = "critical" \/ i.severity = "high")) = 0

passedOf(issues) ==
    Len(SelectSeq(issues, LAMBDA i : i.severity = "critical")) = 0

\* Math.max(0, score)
clampScoreMutNone(score) == score

clampScoreMutAbs(score) == abs(score)

clampScore(score) == IF score > 0 THEN score ELSE 0

push(acc, issue, deduction) ==
    [issues |-> Append(acc.issues, issue), score |-> acc.score - deduction]

\* for (const issue of metadataIssues) { issues.push(issue); score -= ... }
RECURSIVE pushMetadataIssues(_, _, _)
pushMetadataIssues(acc, metadataIssues, i) ==
    IF i > Len(metadataIssues) THEN acc
    ELSE pushMetadataIssues(
             push(acc, metadataIssues[i], metadataDeduction(metadataIssues[i])),
             metadataIssues, i + 1)

\* metadata?.retentionDate
hasRetentionDate(metadata) ==
    metadata # Undefined /\ "retentionDate" \in DOMAIN metadata

checkDocument(filename, size, metadata, t) ==
    LET a0 == [issues |-> <<>>, score |-> 100]
        sizeIssue == checkFileSize(size)
        a1 == IF sizeIssue # Null
              THEN push(a0, sizeIssue, sizeDeduction(sizeIssue)) ELSE a0
        typeIssue == checkFileType(filename)
        a2 == IF typeIssue # Null
              THEN push(a1, typeIssue, typeDeduction(typeIssue)) ELSE a1
        a3 == pushMetadataIssues(a2, checkMetadata(metadata), 1)
        retentionIssue == IF hasRetentionDate(metadata)
                          THEN checkRetention(metadata.retentionDate, t)
                          ELSE Null
        a4 == IF retentionIssue # Null
              THEN push(a3, retentionIssue, retentionDeduction(retentionIssue))
              ELSE a3
    IN [passed |-> passedOf(a4.issues),
        issues |-> a4.issues,
        score  |-> clampScore(a4.score)]

(***************************************************************************)
(* Inputs.                                                                 *)
(***************************************************************************)
FileNames ==
    { <<"r","e","p","o","r","t",".","p","d","f">>,
      <<"R","E","P","O","R","T",".","P","D","F">>,
      <<"m","a","l","w","a","r","e",".","e","x","e">>,
      <<"R","E","A","D","M","E">>,
      <<".","p","d","f">>,
      <<"n","o","t","e","s",".">>,
      <<"a",".","t","a","r",".","c","s","v">> }

Alphabet == {".", "/", "p", "d", "f", "P"}

\* every non-empty filename over Alphabet of at most MaxNameLen characters
AllFileNames == UNION {[1..n -> Alphabet] : n \in 1..MaxNameLen}

Sizes ==
    {0, 1024, maxSizeBytes, maxSizeBytes + 1, 2 * maxSizeBytes,
     2 * maxSizeBytes + 1, 500 * 1024 * 1024}

RetentionDates ==
    {-DayLength, 0, 1, 31 * DayLength, 31 * DayLength + 1}

LinkExpiryDates ==
    {-DayLength, 0, 1, 8 * DayLength, 8 * DayLength + 1, 30 * DayLength}

MetadataFields == {"category", "confidentiality", "retentionDate"}

FullMetadata ==
    [category : {"", "contracts"}, confidentiality : {"", "internal"},
     retentionDate : RetentionDates]

\* undefined, or an object with any subset of the three properties
Metadatas ==
    {Undefined} \cup
    { [f \in S |-> m[f]] : S \in SUBSET MetadataFields, m \in FullMetadata }

CompleteMetadata == [category |-> "contracts", confidentiality |-> "internal"]

LinkExpiries == {Undefined} \cup {[date |-> t] : t \in LinkExpiryDates}

DocIds == {"d1", "d2"}

\* invocations of runPeriodicCheck that may be under way together
RunIds == {"r1", "r2"}

\* the x-session-id values sent
SessionIds == {"s1"}

MaxVersionsArgs == {2, DefaultMaxVersions}

(***************************************************************************)
(* The state machine.  call is the invocation of the engine under way: its *)
(* operation and arguments and, once it has run, the clock value it read   *)
(* (at); result is what it returned, Pending until then.                   *)
(***************************************************************************)
Pending == [type |-> "pending"]

CheckDocumentRequests ==
    [op : {"checkDocument"}, filename : FileNames, size : Sizes,
     metadata : Metadatas]

\* checkDocument over every short filename, the other arguments unobjectionable
NamedRequests ==
    [op : {"checkDocument"}, filename : AllFileNames, size : {1024},
     metadata : {CompleteMetadata}]

CheckLinkExpiryRequests == [op : {"checkLinkExpiry"}, expiryDate : LinkExpiries]

\* empty tables, nothing under way
InitApp ==
    /\ documents = [d \in DocIds |-> Null]
    /\ complianceIssues = {}
    /\ runs = [r \in RunIds |-> [pc |-> "idle"]]
    /\ timelineEvents = {}
    /\ authSessions = [s \in SessionIds |-> Null]
    /\ procs = [d \in DocIds |-> [pc |-> "idle"]]

InitEngine ==
    /\ now = 0
    /\ versions = {}
    /\ call \in CheckDocumentRequests \cup CheckLinkExpiryRequests
    /\ result = Pending
    /\ InitApp

InitFileType ==
    /\ now = 0
    /\ versions = {}
    /\ call \in NamedRequests
    /\ result = Pending
    /\ InitApp

InitVersions ==
    /\ now = 0
    /\ versions = {}
    /\ call = [op |-> "none"]
    /\ result = Pending
    /\ InitApp

\* the wall clock advances
Tick ==
    /\ now < MaxClock
    /\ now' = now + 1
    /\ UNCHANGED <<versions, call, result, app>>

CheckDocument ==
    /\ call.op = "checkDocument"
    /\ result = Pending
    /\ result' = checkDocument(call.filename, call.size, call.metadata, now)
    /\ call' = [at |-> now] @@ call
    /\ UNCHANGED <<now, versions, app>>

CheckLinkExpiry ==
    /\ call.op = "checkLinkExpiry"
    /\ result = Pending
    /\ result' = checkLinkExpiry(call.expiryDate, now)
    /\ call' = [at |-> now] @@ call
    /\ UNCHANGED <<now, versions, app>>

CheckVersionCount ==
    \E documentId \in DocIds, maxVersions \in MaxVersionsArgs :
        /\ call' = [op |-> "checkVersionCount", documentId |-> documentId,
                    maxVersions |-> maxVersions]
        /\ result' = checkVersionCount(versions, documentId, maxVersions)
        /\ UNCHANGED <<now, versions, app>>

\* versionRepository.create, numbered as syncDocument numbers a new version
VersionCreate ==
    \E documentId \in DocIds :
        LET row == [documentId |-> documentId,
                    versionNumber |-> getVersionCount(versions, documentId) + 1]
        IN /\ getVersionCount(versions, documentId) < MaxVersionRows
           /\ versions' = versions \cup {row}
           /\ call' = [op |-> "versionCreate", documentId |-> documentId]
           /\ result' = row
           /\ UNCHANGED <<now, app>>

NextEngine == CheckDocument \/ CheckLinkExpiry \/ Tick

NextFileType == CheckDocument

NextVersions == VersionCreate \/ CheckVersionCount

\* the compliance engine on its own: checkDocument and checkLinkExpiry
SpecEngine == InitEngine /\ [][NextEngine]_vars

\* checkDocument over all short filenames
SpecFileType == InitFileType /\ [][NextFileType]_vars

\* the version store and checkVersionCount
SpecVersions == InitVersions /\ [][NextVersions]_vars

(***************************************************************************)
(* Properties.                                                             *)
(***************************************************************************)
Done(op) == call.op = op /\ result # Pending

IssuesOfType(issues, types) == SelectSeq(issues, LAMBDA i : i.type \in types)

HasSeverity(issues, sev) == \E k \in 1..Len(issues) : issues[k].severity = sev

\* C1: checkDocument returns passed = true exactly when none of the returned
\* issues has severity critical; passed = true whenever the issues list is
\* empty.
C1_PassedIffNoCritical ==
    Done("checkDocument") =>
        /\ result.passed <=> ~HasSeverity(result.issues, "critical")
        /\ result.issues = <<>> => result.passed

\* a call that passed although it reported a high issue
C1_Witness ==
    /\ Done("checkDocument")
    /\ result.passed
    /\ HasSeverity(result.issues, "high")

\* a call that failed on a single critical issue
C1_WitnessFailed ==
    /\ Done("checkDocument")
    /\ ~result.passed
    /\ Len(result.issues) = 1

\* the deduction table of C2, by issue type and severity
TableDeduction(issue) ==
    CASE issue.type = "file_too_large" /\ issue.severity = "critical" -> 40
      [] issue.type = "file_too_large" /\ issue.severity = "high" -> 25
      [] issue.type = "disallowed_file_type" /\ issue.severity = "critical" -> 50
      [] issue.type = "disallowed_file_type" /\ issue.severity = "high" -> 30
      [] issue.type = "missing_metadata"
           /\ issue.severity \in {"low", "medium"} -> 5
      [] issue.type = "expired_document" -> 30
      [] issue.type = "retention_policy_violation" -> 20
      [] OTHER -> -1

RECURSIVE SumDeductions(_)
SumDeductions(issues) ==
    IF issues = <<>> THEN 0
    ELSE TableDeduction(Head(issues)) + SumDeductions(Tail(issues))

\* C2: the score of checkDocument is max(0, 100 - D), D the sum of the
\* table's deductions over the returned issues (every returned issue is in
\* the table); so the score is an integer in 0..100.
C2_ScoreFormula ==
    Done("checkDocument") =>
        LET D == SumDeductions(result.issues) IN
        /\ \A k \in 1..Len(result.issues) :
               TableDeduction(result.issues[k]) > 0
        /\ result.score = (IF 100 - D > 0 THEN 100 - D ELSE 0)
        /\ result.score \in 0..100

\* a call whose deductions exceed 100, so the clamp decides the score
C2_Witness ==
    /\ Done("checkDocument")
    /\ SumDeductions(result.issues) > 100
    /\ result.score = 0

\* C3: no file_too_large issue for size <= max; exactly one, of severity
\* high, for max < size <= 2*max; exactly one, critical, for size > 2*max.
C3_SizeCheck ==
    Done("checkDocument") =>
        LET si == IssuesOfType(result.issues, {"file_too_large"})
            s  == call.size
        IN /\ s <= maxSizeBytes => si = <<>>
           /\ (maxSizeBytes < s /\ s <= 2 * maxSizeBytes) =>
                  Len(si) = 1 /\ si[1].severity = "high"
           /\ s > 2 * maxSizeBytes =>
                  Len(si) = 1 /\ si[1].severity = "critical"

\* the three sides of the two thresholds
C3_Witness ==
    /\ Done("checkDocument")
    /\ call.size = 2 * maxSizeBytes
    /\ HasSeverity(IssuesOfType(result.issues, {"file_too_large"}), "high")

C3_WitnessAtLimit ==
    /\ Done("checkDocument")
    /\ call.size = maxSizeBytes
    /\ IssuesOfType(result.issues, {"file_too_large"}) = <<>>

C3_WitnessCritical ==
    /\ Done("checkDocument")
    /\ call.size = 2 * maxSizeBytes + 1
    /\ HasSeverity(IssuesOfType(result.issues, {"file_too_large"}), "critical")

(***************************************************************************)
(* The extension of a filename, stated without the scan of path.extname.   *)
(***************************************************************************)
HasDot(s) == \E k \in 1..Len(s) : s[k] = "."

LastIndexOf(s, c) ==
    IF \E k \in 1..Len(s) : s[k] = c
    THEN CHOOSE k \in 1..Len(s) : s[k] = c /\ \A j \in (k+1)..Len(s) : s[j] # c
    ELSE 0

\* the text after the last '.', lower-cased (of a string that has a '.')
AfterLastDot(s) == toLowerCase(SubSeq(s, LastIndexOf(s, ".") + 1, Len(s)))

\* the last path component: trailing '/' dropped, then what follows the last '/'
RECURSIVE StripSlashes(_)
StripSlashes(s) ==
    IF s # <<>> /\ s[Len(s)] = "/" THEN StripSlashes(SubSeq(s, 1, Len(s) - 1))
    ELSE s

LastComponent(s) ==
    LET t == StripSlashes(s) IN SubSeq(t, LastIndexOf(t, "/") + 1, Len(t))

\* a filename has an extension when its last component has a '.' that is
\* neither its first nor its last character
HasExtension(filename) ==
    LET b == LastComponent(filename) IN
    /\ HasDot(b)
    /\ LastIndexOf(b, ".") # 1
    /\ LastIndexOf(b, ".") # Len(b)

ExtensionOf(filename) == AfterLastDot(LastComponent(filename))

TypeIssues == IssuesOfType(result.issues, {"disallowed_file_type"})

\* the type check answered "File has no extension"
TreatedAsNoExtension ==
    /\ Len(TypeIssues) = 1
    /\ TypeIssues[1].severity = "high"
    /\ DOMAIN TypeIssues[1].details = {"filename"}

\* C4: a filename whose extension (as path.extname finds it) is in the
\* allowed set, whatever its case, gets no disallowed_file_type issue; one
\* with any other extension gets exactly one, critical; one with no
\* extension gets exactly one, high.
C4_TypeCheck ==
    Done("checkDocument") =>
        LET f == call.filename IN
        /\ (HasExtension(f) /\ includes(AllowedFileTypes, ExtensionOf(f))) =>
               TypeIssues = <<>>
        /\ (HasExtension(f) /\ ~includes(AllowedFileTypes, ExtensionOf(f))) =>
               Len(TypeIssues) = 1 /\ TypeIssues[1].severity = "critical"
        /\ ~HasExtension(f) =>
               Len(TypeIssues) = 1 /\ TypeIssues[1].severity = "high"

\* an allowed extension written with an upper-case letter is accepted
C4_Witness ==
    /\ Done("checkDocument")
    /\ HasExtension(call.filename)
    /\ \E k \in 1..Len(call.filename) : call.filename[k] = "P"
    /\ ExtensionOf(call.filename) = <<"p", "d", "f">>
    /\ SubSeq(call.filename, Len(call.filename) - 2, Len(call.filename))
           # <<"p", "d", "f">>
    /\ TypeIssues = <<>>

C4_WitnessCritical ==
    /\ Done("checkDocument")
    /\ HasExtension(call.filename)
    /\ Len(TypeIssues) = 1 /\ TypeIssues[1].severity = "critical"

C4_WitnessNone ==
    /\ Done("checkDocument")
    /\ ~HasDot(call.filename)
    /\ TreatedAsNoExtension

\* C5 as stated: the extension used is the text after the last '.' of the
\* filename, lower-cased, and the filename counts as having no extension
\* exactly when it contains no '.'.
C5_Original ==
    Done("checkDocument") =>
        LET f == call.filename IN
        /\ TreatedAsNoExtension <=> ~HasDot(f)
        /\ HasDot(f) => fileExt(f) = AfterLastDot(f)

\* C5 amended: the extension used is the text after the last '.' of the
\* filename's last path component (trailing '/' ignored), lower-cased; the
\* filename counts as having no extension exactly when that component has
\* no '.', or its last '.' is its first or its last character.
C5_Extension ==
    Done("checkDocument") =>
        LET f == call.filename IN
        /\ TreatedAsNoExtension <=> ~HasExtension(f)
        /\ HasExtension(f) => fileExt(f) = ExtensionOf(f)
        /\ (Len(TypeIssues) = 1 /\ TypeIssues[1].severity = "critical") =>
               TypeIssues[1].details.fileType = ExtensionOf(f)

\* a filename that begins with its only '.' is treated as having no extension
C5_Witness ==
    /\ Done("checkDocument")
    /\ call.filename[1] = "."
    /\ Len(call.filename) > 1
    /\ ~HasDot(Tail(call.filename))
    /\ TreatedAsNoExtension

\* a filename that ends with '.'
C5_WitnessTrailingDot ==
    /\ Done("checkDocument")
    /\ call.filename[Len(call.filename)] = "."
    /\ call.filename[1] # "."
    /\ TreatedAsNoExtension

\* a '.' only before the last '/': the last component has no extension
C5_WitnessComponent ==
    /\ Done("checkDocument")
    /\ HasDot(call.filename)
    /\ ~HasDot(LastComponent(call.filename))
    /\ LastComponent(call.filename) # <<>>
    /\ TreatedAsNoExtension

MetadataIssues == IssuesOfType(result.issues, {"missing_metadata"})

\* category (or confidentiality) is empty or absent
EmptyOrAbsent(metadata, f) == f \notin DOMAIN metadata \/ metadata[f] = ""

\* a missing_metadata issue of the given severity naming the given field
NamesField(issue, sev, f) ==
    /\ issue.type = "missing_metadata"
    /\ issue.severity = sev
    /\ "details" \in DOMAIN issue
    /\ issue.details = [missingField |-> f]

CountNaming(sev, f) ==
    Cardinality({k \in 1..Len(MetadataIssues) :
                     NamesField(MetadataIssues[k], sev, f)})

\* C6: metadata absent gives exactly one missing_metadata issue, medium,
\* without details; metadata present gives a low issue naming category iff
\* category is empty or absent, and a medium issue naming confidentiality
\* iff confidentiality is empty or absent, independently, and nothing else.
C6_MetadataCheck ==
    Done("checkDocument") =>
        LET m == call.metadata IN
        IF m = Undefined
        THEN /\ Len(MetadataIssues) = 1
             /\ MetadataIssues[1].severity = "medium"
             /\ "details" \notin DOMAIN MetadataIssues[1]
        ELSE /\ CountNaming("low", "category") =
                    (IF EmptyOrAbsent(m, "category") THEN 1 ELSE 0)
             /\ CountNaming("medium", "confidentiality") =
                    (IF EmptyOrAbsent(m, "confidentiality") THEN 1 ELSE 0)
             /\ Len(MetadataIssues) =
                    CountNaming("low", "category")
                    + CountNaming("medium", "confidentiality")

\* both fields missing (one absent, one empty): two issues
C6_Witness ==
    /\ Done("checkDocument")
    /\ call.metadata # Undefined
    /\ "category" \notin DOMAIN call.metadata
    /\ "confidentiality" \in DOMAIN call.metadata
    /\ call.metadata.confidentiality = ""
    /\ Len(MetadataIssues) = 2

C6_WitnessAbsent ==
    /\ Done("checkDocument")
    /\ call.metadata = Undefined
    /\ Len(MetadataIssues) = 1

C6_WitnessOnlyConfidentiality ==
    /\ Done("checkDocument")
    /\ call.metadata # Undefined
    /\ ~EmptyOrAbsent(call.metadata, "category")
    /\ EmptyOrAbsent(call.metadata, "confidentiality")
    /\ Len(MetadataIssues) = 1

RetentionIssues ==
    IssuesOfType(result.issues,
                 {"expired_document", "retention_policy_violation"})

\* floor((date - t) / 1 day)
WholeDays(date, t) ==
    CHOOSE d \in -400..400 :
        d * DayLength <= date - t /\ date - t < (d + 1) * DayLength

RetentionDatePresent ==
    call.metadata # Undefined /\ "retentionDate" \in DOMAIN call.metadata

\* C7: with a retentionDate and d whole days from the call's clock to it,
\* d < 0 gives exactly one expired_document issue, critical; 0 <= d <= 30
\* exactly one retention_policy_violation issue, high; d > 30, or no
\* retentionDate, no retention issue.
C7_RetentionCheck ==
    Done("checkDocument") =>
        IF RetentionDatePresent
        THEN LET d == WholeDays(call.metadata.retentionDate, call.at) IN
             /\ d < 0 =>
                  /\ Len(RetentionIssues) = 1
                  /\ RetentionIssues[1].type = "expired_document"
                  /\ RetentionIssues[1].severity = "critical"
             /\ (0 <= d /\ d <= 30) =>
                  /\ Len(RetentionIssues) = 1
                  /\ RetentionIssues[1].type = "retention_policy_violation"
                  /\ RetentionIssues[1].severity = "high"
             /\ d > 30 => RetentionIssues = <<>>
        ELSE RetentionIssues = <<>>

\* the upper boundary: 30 whole days left, one second short of 31
C7_Witness ==
    /\ Done("checkDocument")
    /\ RetentionDatePresent
    /\ call.metadata.retentionDate - call.at = 31 * DayLength - 1
    /\ Len(RetentionIssues) = 1
    /\ RetentionIssues[1].type = "retention_policy_violation"

\* one second past the retention date: expired
C7_WitnessExpired ==
    /\ Done("checkDocument")
    /\ RetentionDatePresent
    /\ call.metadata.retentionDate - call.at = -1
    /\ Len(RetentionIssues) = 1
    /\ RetentionIssues[1].type = "expired_document"

C7_WitnessFar ==
    /\ Done("checkDocument")
    /\ RetentionDatePresent
    /\ call.metadata.retentionDate - call.at = 31 * DayLength
    /\ RetentionIssues = <<>>

\* C8: checkLinkExpiry returns no issue without an expiry; otherwise, with
\* d whole days from the call's clock to the expiry, link_expired high for
\* d < 0, link_expired medium for 0 <= d <= 7, no issue for d > 7.
C8_LinkExpiry ==
    Done("checkLinkExpiry") =>
        IF call.expiryDate = Undefined THEN result = Null
        ELSE LET d == WholeDays(call.expiryDate.date, call.at) IN
             /\ d < 0 => result.type = "link_expired" /\ result.severity = "high"
             /\ (0 <= d /\ d <= 7) =>
                    result.type = "link_expired" /\ result.severity = "medium"
             /\ d > 7 => result = Null

\* an expiry exactly equal to the clock: medium, 0 days
C8_Witness ==
    /\ Done("checkLinkExpiry")
    /\ call.expiryDate # Undefined
    /\ call.expiryDate.date = call.at
    /\ result.type = "link_expired"
    /\ result.severity = "medium"
    /\ result.details.daysUntilExpiry = 0

C8_WitnessSeven ==
    /\ Done("checkLinkExpiry")
    /\ call.expiryDate # Undefined
    /\ call.expiryDate.date - call.at = 8 * DayLength - 1
    /\ result.severity = "medium"

C8_WitnessEight ==
    /\ Done("checkLinkExpiry")
    /\ call.expiryDate # Undefined
    /\ call.expiryDate.date - call.at = 8 * DayLength
    /\ result = Null

C8_WitnessExpired ==
    /\ Done("checkLinkExpiry")
    /\ call.expiryDate # Undefined
    /\ call.expiryDate.date - call.at = -1
    /\ result.severity = "high"

\* C9: checkVersionCount returns one version_limit_exceeded issue, medium,
\* when the document's version count is greater than the maximum, and no
\* issue otherwise; the count and the maximum alone decide.
C9_VersionCount ==
    call.op = "checkVersionCount" =>
        LET count == Cardinality({v \in versions :
                                     v.documentId = call.documentId})
        IN IF count > call.maxVersions
           THEN result = [type |-> "version_limit_exceeded",
                          severity |-> "medium",
                          details |-> [versionCount |-> count,
                                       maxVersions |-> call.maxVersions]]
           ELSE result = Null

\* 51 versions against the default maximum of 50
C9_Witness ==
    /\ call.op = "checkVersionCount"
    /\ call.maxVersions = 50
    /\ Cardinality({v \in versions : v.documentId = call.documentId}) = 51
    /\ result.type = "version_limit_exceeded"

C9_WitnessAtLimit ==
    /\ call.op = "checkVersionCount"
    /\ call.maxVersions = 50
    /\ Cardinality({v \in versions : v.documentId = call.documentId}) = 50
    /\ result = Null

\* the place of an issue in the evaluation order
Rank(issue) ==
    CASE issue.type = "file_too_large" -> 1
      [] issue.type = "disallowed_file_type" -> 2
      [] issue.type = "missing_metadata" ->
           IF "details" \in DOMAIN issue
              /\ issue.details = [missingField |-> "confidentiality"]
           THEN 4 ELSE 3
      [] issue.type \in {"expired_document", "retention_policy_violation"} -> 5
      [] OTHER -> 0

\* C10: the issues of checkDocument come in evaluation order: size, type,
\* metadata (category before confidentiality), retention.
C10_IssueOrder ==
    Done("checkDocument") =>
        \A j, k \in 1..Len(result.issues) :
            j < k => (0 < Rank(result.issues[j])
                      /\ Rank(result.issues[j]) < Rank(result.issues[k]))

\* all five places taken
C10_Witness ==
    /\ Done("checkDocument")
    /\ Len(result.issues) = 5
    /\ result.issues[1].type = "file_too_large"
    /\ result.issues[5].type = "expired_document"

(***************************************************************************)
(* Two calls of checkDocument, one after the other, on arguments drawn     *)
(* independently; result is the sequence of what they returned.            *)
(***************************************************************************)
PairNames ==
    { <<"r","e","p","o","r","t",".","p","d","f">>,
      <<"m","a","l","w","a","r","e",".","e","x","e">>,
      <<"R","E","A","D","M","E">> }

PairSizes == {1024, maxSizeBytes + 1, 2 * maxSizeBytes + 1}

PairMetadatas ==
    { Undefined,
      [f \in {} |-> ""],
      [retentionDate |-> 1],
      [category |-> "contracts"],
      CompleteMetadata,
      [retentionDate |-> 1] @@ CompleteMetadata,
      [retentionDate |-> 31 * DayLength] @@ CompleteMetadata }

PairArgs == [filename : PairNames, size : PairSizes, metadata : PairMetadatas]

PairRequests == [op : {"checkDocumentTwice"}, first : PairArgs, second : PairArgs]

InitPair ==
    /\ now = 0
    /\ versions = {}
    /\ call \in PairRequests
    /\ result = <<>>
    /\ InitApp

CheckFirst ==
    /\ call.op = "checkDocumentTwice"
    /\ Len(result) = 0
    /\ result' = <<checkDocument(call.first.filename, call.first.size,
                                 call.first.metadata, now)>>
    /\ call' = [at1 |-> now] @@ call
    /\ UNCHANGED <<now, versions, app>>

\* the second call takes the score from the issue table
CheckSecondMutStore ==
    /\ call.op = "checkDocumentTwice"
    /\ Len(result) = 1
    /\ LET res == checkDocument(call.second.filename, call.second.size,
                                call.second.metadata, now)
       IN result' = Append(result,
                           IF complianceIssues = {} THEN res
                           ELSE [res EXCEPT !.score = 0])
    /\ call' = [at2 |-> now] @@ call
    /\ UNCHANGED <<now, versions, app>>

CheckSecond ==
    /\ call.op = "checkDocumentTwice"
    /\ Len(result) = 1
    /\ result' = Append(result,
                        checkDocument(call.second.filename, call.second.size,
                                      call.second.metadata, now))
    /\ call' = [at2 |-> now] @@ call
    /\ UNCHANGED <<now, versions, app>>

NextPair == CheckFirst \/ CheckSecond \/ Tick

\* checkDocument called twice
SpecPair == InitPair /\ [][NextPair]_vars

\* how many issues of a type and severity a result holds
CountOf(list, type, severity) ==
    Len(SelectSeq(list, LAMBDA i : i.type = type /\ i.severity = severity))

IssueTypes ==
    {"file_too_large", "disallowed_file_type", "missing_metadata",
     "expired_document", "retention_policy_violation", "link_expired",
     "version_limit_exceeded"}

Severities == {"low", "medium", "high", "critical"}

\* the second result holds every issue of the first, by type and severity
Covers(second, first) ==
    \A type \in IssueTypes, severity \in Severities :
        CountOf(first, type, severity) <= CountOf(second, type, severity)

\* C12: the score does not grow with the violations: when the second call's
\* issues include every issue of the first (same type and severity), the
\* second score is at most the first; no score is below 0.
C12_ScoreMonotone ==
    /\ \A k \in 1..Len(result) : result[k].score >= 0
    /\ Len(result) = 2 /\ Covers(result[2].issues, result[1].issues)
           => result[2].score <= result[1].score

\* the second call has strictly more issues and a strictly lower score
C12_Witness ==
    /\ Len(result) = 2
    /\ Covers(result[2].issues, result[1].issues)
    /\ Len(result[1].issues) > 0
    /\ Len(result[2].issues) > Len(result[1].issues)
    /\ result[2].score < result[1].score

\* both clamped: more issues, the same score 0
C12_WitnessClamped ==
    /\ Len(result) = 2
    /\ Covers(result[2].issues, result[1].issues)
    /\ Len(result[2].issues) > Len(result[1].issues)
    /\ result[1].score = 0
    /\ result[2].score = 0

\* the retention date lies before the clock value the call read
Expired(metadata, t) ==
    /\ metadata # Undefined
    /\ "retentionDate" \in DOMAIN metadata
    /\ metadata.retentionDate < t

\* C13: a 500MB file named *.exe whose metadata names neither category nor
\* confidentiality and holds a retention date in the past has score exactly
\* 0, under the 50MB maximum.
C13_WorstCaseScore ==
    /\ Done("checkDocument")
    /\ call.size = 500 * 1024 * 1024
    /\ ExtensionOf(call.filename) = <<"e", "x", "e">>
    /\ Expired(call.metadata, call.at)
    /\ EmptyOrAbsent(call.metadata, "category")
    /\ EmptyOrAbsent(call.metadata, "confidentiality")
    => result.score = 0

\* the case itself: five issues, score 0
C13_Witness ==
    /\ Done("checkDocument")
    /\ MaxFileSizeMB = 50
    /\ call.size = 500 * 1024 * 1024
    /\ ExtensionOf(call.filename) = <<"e", "x", "e">>
    /\ Expired(call.metadata, call.at)
    /\ DOMAIN call.metadata = {"retentionDate"}
    /\ Len(result.issues) = 5
    /\ result.score = 0

\* without a metadata argument there is no retention date to check: 5 is left
C13_WitnessNoObject ==
    /\ Done("checkDocument")
    /\ call.size = 500 * 1024 * 1024
    /\ ExtensionOf(call.filename) = <<"e", "x", "e">>
    /\ call.metadata = Undefined
    /\ result.score = 5

(***************************************************************************)
(* The tables.  documents[d] is the row of table documents with id d, Null *)
(* while there is none; a column that is SQL NULL holds Null.              *)
(* complianceIssues is the set of rows of table compliance_issues; the id  *)
(* of a row is the pair of its document and its place among the rows ever  *)
(* inserted for that document (uuidv4() in the code: unique).  versions is *)
(* the set of rows of table document_versions.                             *)
(***************************************************************************)
\* doc.metadata ? JSON.stringify(doc.metadata) : null
jsonStringify(metadata) ==
    IF metadata = Undefined THEN Null ELSE [json |-> metadata]

\* doc.metadata ? JSON.parse(doc.metadata) : undefined
jsonParse(column) == IF column # Null THEN column.json ELSE Undefined

\* documentRepository.create: status and compliance_score take their defaults
documentCreate(docs, id, objectId, filename, size, metadata) ==
    [docs EXCEPT ![id] =
        [id |-> id, hubspotObjectId |-> objectId,
         originalFilename |-> filename, size |-> size,
         metadata |-> jsonStringify(metadata), status |-> "pending_upload",
         complianceScore |-> 100, sharepointDriveItemId |-> Null,
         secureLink |-> Null, secureLinkExpiry |-> Null,
         currentVersionId |-> Null]]

\* documentRepository.update: UPDATE ... WHERE id = ?, no row, no change
documentUpdate(docs, id, updates) ==
    IF docs[id] = Null THEN docs
    ELSE [docs EXCEPT ![id] = updates @@ docs[id]]

\* complianceIssueRepository.findByDocumentId
findByDocumentId(rows, documentId) == {i \in rows : i.documentId = documentId}

complianceIssueCreate(rows, id, documentId, issue) ==
    rows \cup {[id |-> id, documentId |-> documentId, status |-> "open"] @@ issue}

\* complianceIssueRepository.update of the status
complianceIssueUpdate(rows, id, status) ==
    {IF i.id = id THEN [i EXCEPT !.status = status] ELSE i : i \in rows}

\* ComplianceService.createIssues: one row per issue, in order; stops after
\* the first upTo issues
RECURSIVE createIssuesUpTo(_, _, _, _)
createIssuesUpTo(rows, documentId, list, upTo) ==
    IF upTo = 0 THEN rows
    ELSE LET before == createIssuesUpTo(rows, documentId, list, upTo - 1)
             id == <<documentId,
                     Cardinality(findByDocumentId(before, documentId)) + 1>>
         IN complianceIssueCreate(before, id, documentId, list[upTo])

createIssues(rows, documentId, list) ==
    createIssuesUpTo(rows, documentId, list, Len(list))

(***************************************************************************)
(* Table timeline_events and TimelineService.createEvent.  The id of an    *)
(* event is the pair of its document and its place among the events of     *)
(* that document (uuidv4() in the code: unique).                           *)
(***************************************************************************)
\* INSERT INTO timeline_events throws on an id the table holds (PRIMARY KEY)
insertThrows(rows, event) == \E r \in rows : r.id = event.id

\* timelineEventRepository.create: the table after the INSERT, done or thrown
timelineEventCreate(rows, event) ==
    IF insertThrows(rows, event) THEN rows ELSE rows \cup {event}

newEventId(rows, documentId) ==
    <<documentId, Cardinality({r \in rows : r.documentId = documentId}) + 1>>

\* createEvent lines 21-32: the local record, before the note is asked of
\* HubSpot
localEvent(rows, documentId, eventType) ==
    [id |-> newEventId(rows, documentId), documentId |-> documentId,
     eventType |-> eventType, hubspotTimelineEventId |-> Null]

\* what createEvent has done to the table when its caller resumes: the
\* second INSERT (lines 66-75) throws on the id of the first and is caught,
\* as is a failure of the note, so only the first INSERT shows
createEvent(rows, documentId, eventType) ==
    timelineEventCreate(rows, localEvent(rows, documentId, eventType))

(***************************************************************************)
(* ComplianceService.runPeriodicCheck, one document of its loop.           *)
(***************************************************************************)
\* lines 552-557
evaluate(doc, t) ==
    checkDocument(doc.originalFilename, doc.size, jsonParse(doc.metadata), t)

\* lines 560-571: the link and version issues pushed onto result.issues
pushLinkIssueMutScore(res, doc, t) ==
    LET linkIssue == IF doc.secureLinkExpiry # Null
                     THEN checkLinkExpiry(doc.secureLinkExpiry, t) ELSE Null
    IN IF linkIssue # Null
       THEN [res EXCEPT !.issues = Append(@, linkIssue),
                        !.score = clampScore(@ - 10)]
       ELSE res

pushLinkIssue(res, doc, t) ==
    LET linkIssue == IF doc.secureLinkExpiry # Null
                     THEN checkLinkExpiry(doc.secureLinkExpiry, t) ELSE Null
    IN IF linkIssue # Null
       THEN [res EXCEPT !.issues = Append(@, linkIssue)] ELSE res

pushVersionIssue(res, doc, versionRows) ==
    LET versionIssue == checkVersionCount(versionRows, doc.id, DefaultMaxVersions)
    IN IF versionIssue # Null
       THEN [res EXCEPT !.issues = Append(@, versionIssue)] ELSE res

\* line 575
existingTypesMutResolved(rows, documentId) ==
    {i.type : i \in {x \in findByDocumentId(rows, documentId) :
                        x.status = "resolved"}}

existingTypesMutAll(rows, documentId) ==
    {i.type : i \in findByDocumentId(rows, documentId)}

existingTypes(rows, documentId) ==
    {i.type : i \in {x \in findByDocumentId(rows, documentId) : x.status = "open"}}

\* nothing is filtered out
newIssuesOfMutAll(list, types) == list

\* line 577
newIssuesOf(list, types) == SelectSeq(list, LAMBDA i : i.type \notin types)

(***************************************************************************)
(* The application: requests to upload a document (processDocument), to    *)
(* run the periodic check, to resolve or acknowledge an issue.  An action  *)
(* is what the code does between two points where it waits for the network *)
(* (HubSpot, Microsoft Graph); an await of checkDocument or createIssues,  *)
(* which never wait for anything, gives way to other invocations of        *)
(* runPeriodicCheck that are at such an await too, and to nothing else.    *)
(***************************************************************************)
ReportPdf == <<"r","e","p","o","r","t",".","p","d","f">>

MalwareExe == <<"m","a","l","w","a","r","e",".","e","x","e">>

\* the clock advances by this much at a time: 24 days
AdvanceStep == 24 * DayLength

\* the CRM records (all of one objectType) documents are attached to; no
\* upload is ever made for the last one
ObjectIds == {"o1", "o2", "o3"}

\* files sent for upload: objectId, filename, size (of the decoded buffer),
\* metadata
Uploads ==
    { [objectId |-> "o1", filename |-> ReportPdf, size |-> 1024,
       metadata |-> CompleteMetadata],
      [objectId |-> "o1", filename |-> ReportPdf, size |-> 1024,
       metadata |-> [f \in {} |-> ""]],
      [objectId |-> "o1", filename |-> ReportPdf, size |-> maxSizeBytes + 1,
       metadata |-> [retentionDate |-> 20 * DayLength] @@ CompleteMetadata],
      [objectId |-> "o2", filename |-> MalwareExe, size |-> 1024,
       metadata |-> Undefined] }

\* the orders in which a SELECT without ORDER BY may return the rows
Orders(S) ==
    {o \in [1..Cardinality(S) -> S] :
        \A j, k \in 1..Cardinality(S) : j # k => o[j] # o[k]}

\* SELECT * FROM documents WHERE status = 'synced': the ids of the rows
syncedDocumentsMutAll(docs) == {d \in DocIds : docs[d] # Null}

syncedDocuments(docs) ==
    {d \in DocIds : docs[d] # Null /\ docs[d].status = "synced"}

\* an invocation of runPeriodicCheck is between its first and last statement,
\* or an answer is on its way out
RunBusy ==
    \E r \in RunIds : runs[r].pc \in {"persist", "score", "done", "failed"}

Answering == \E d \in DocIds : procs[d].pc = "done"

\* nothing is running: the next request or network answer is taken up
Quiet == ~RunBusy /\ ~Answering

\* res.json({ success: true, documentsChecked, issuesFound })
runResponse(run, found) ==
    [status |-> 200, success |-> TRUE, documentsChecked |-> Len(run.docs),
     issuesFound |-> found]

\* the end of one pass of the loop: on to the next document (its
\* checkDocument called, line 553) or to the return (line 589)
nextDocument(run, found, t) ==
    IF run.i < Len(run.docs)
    THEN [run EXCEPT !.pc = "persist", !.i = run.i + 1,
                     !.result = evaluate(run.docs[run.i + 1], t),
                     !.issuesFound = found]
    ELSE [pc |-> "done", docs |-> run.docs, start |-> run.start,
          response |-> runResponse(run, found)]

\* lines 546-557: the query and the first checkDocument; start keeps the
\* tables as they were then, for the properties
RunStart(r) ==
    /\ runs[r].pc = "idle"
    /\ ~Answering
    /\ \E order \in Orders(syncedDocuments(documents)) :
         LET run == [pc |-> "persist",
                     docs |-> [k \in DOMAIN order |-> documents[order[k]]],
                     i |-> 0, result |-> Null, issuesFound |-> 0,
                     start |-> [documents |-> documents,
                                complianceIssues |-> complianceIssues,
                                versions |-> versions, now |-> now]]
         IN runs' = [runs EXCEPT ![r] = nextDocument(run, 0, now)]
    /\ UNCHANGED <<now, versions, call, result, documents, complianceIssues,
                   procs,
                   timelineEvents, authSessions>>

\* the open types as they were when the run began, not as they are now
RunPersistMutStale(r) ==
    /\ runs[r].pc = "persist"
    /\ LET run == runs[r]
           doc == run.docs[run.i]
           res == pushVersionIssue(pushLinkIssue(run.result, doc, now),
                                   doc, versions)
           newIssues == newIssuesOf(res.issues,
                            existingTypes(run.start.complianceIssues, doc.id))
       IN IF Len(newIssues) > 0
          THEN /\ complianceIssues' =
                      createIssues(complianceIssues, doc.id, newIssues)
               /\ runs' = [runs EXCEPT ![r] =
                             [run EXCEPT !.pc = "score", !.result = res,
                                         !.issuesFound = @ + Len(newIssues)]]
               /\ UNCHANGED documents
          ELSE /\ documents' = documentUpdate(documents, doc.id,
                                   [complianceScore |-> res.score])
               /\ runs' = [runs EXCEPT ![r] =
                             nextDocument([run EXCEPT !.result = res],
                                          run.issuesFound, now)]
               /\ UNCHANGED complianceIssues
    /\ UNCHANGED <<now, versions, call, result, procs,
                   timelineEvents, authSessions>>

\* lines 560-587 when there are new issues: up to await createIssues
\* lines 560-587 and on when there are none: the score is written at once
RunPersist(r) ==
    /\ runs[r].pc = "persist"
    /\ LET run == runs[r]
           doc == run.docs[run.i]
           res == pushVersionIssue(pushLinkIssue(run.result, doc, now),
                                   doc, versions)
           newIssues == newIssuesOf(res.issues,
                                    existingTypes(complianceIssues, doc.id))
       IN IF Len(newIssues) > 0
          THEN /\ complianceIssues' =
                      createIssues(complianceIssues, doc.id, newIssues)
               /\ runs' = [runs EXCEPT ![r] =
                             [run EXCEPT !.pc = "score", !.result = res,
                                         !.issuesFound = @ + Len(newIssues)]]
               /\ UNCHANGED documents
          ELSE /\ documents' = documentUpdate(documents, doc.id,
                                   [complianceScore |-> res.score])
               /\ runs' = [runs EXCEPT ![r] =
                             nextDocument([run EXCEPT !.result = res],
                                          run.issuesFound, now)]
               /\ UNCHANGED complianceIssues
    /\ UNCHANGED <<now, versions, call, result, procs,
                   timelineEvents, authSessions>>

\* lines 583-587 after await createIssues, and on to the next document
RunScore(r) ==
    /\ runs[r].pc = "score"
    /\ LET run == runs[r]
           doc == run.docs[run.i]
       IN /\ documents' = documentUpdate(documents, doc.id,
                              [complianceScore |-> run.result.score])
          /\ runs' = [runs EXCEPT ![r] = nextDocument(run, run.issuesFound, now)]
    /\ UNCHANGED <<now, versions, call, result, complianceIssues, procs,
                   timelineEvents, authSessions>>

(***************************************************************************)
(* DocumentGovernanceService.processDocument with a file sent as a buffer  *)
(* (both routes do), and SharePointService.syncDocument inside it.         *)
(* procs[d] is the invocation whose uuidv4() gave the document id d.       *)
(***************************************************************************)
\* the bound on the issues that leave status open
MaxHandled == 1

\* the bound on the times the clock advances
MaxAdvances == 1

criticalIssuesMutHigh(list) == SelectSeq(list, LAMBDA i : i.severity = "high")

criticalIssues(list) == SelectSeq(list, LAMBDA i : i.severity = "critical")

\* the catch block: status error, and the answer without score or issues
caught(d) ==
    [pc |-> "done",
     response |-> [status |-> 400, success |-> FALSE, documentId |-> d,
                   error |-> "thrown"]]

\* lines 33-79: checkDocument, the row, the upload event sent to HubSpot
ProcStart(upload) ==
    /\ Quiet
    /\ \E d \in DocIds : procs[d].pc = "idle"
    /\ LET d == CHOOSE d \in DocIds : procs[d].pc = "idle"
           complianceResult == checkDocument(upload.filename, upload.size,
                                             upload.metadata, now)
       IN /\ documents' = documentCreate(documents, d, upload.objectId,
                                         upload.filename, upload.size,
                                         upload.metadata)
          /\ procs' = [procs EXCEPT ![d] =
                         [pc |-> "logUploaded", upload |-> upload,
                          complianceResult |-> complianceResult]]
          /\ timelineEvents' =
                 createEvent(timelineEvents, d, "document_uploaded")
    /\ UNCHANGED <<now, versions, call, result, complianceIssues, runs,
                   authSessions>>

\* lines 82-103 with a critical issue: the document is blocked
\* lines 115 and syncDocument 581-589 without: status uploading, the upload
\* to SharePoint begun
ProcLogUploaded(d) ==
    /\ Quiet
    /\ procs[d].pc = "logUploaded"
    /\ LET res == procs[d].complianceResult IN
       IF Len(criticalIssues(res.issues)) > 0
       THEN /\ documents' = documentUpdate(documents, d,
                                [status |-> "error",
                                 complianceScore |-> res.score])
            /\ complianceIssues' = createIssues(complianceIssues, d, res.issues)
            /\ procs' = [procs EXCEPT ![d] =
                           [@ EXCEPT !.pc = "logIssue"] @@
                           [left |-> Len(criticalIssues(res.issues))]]
            /\ timelineEvents' =
                   createEvent(timelineEvents, d, "compliance_issue_detected")
       ELSE /\ documents' = documentUpdate(documents, d,
                                [status |-> "uploading"])
            /\ procs' = [procs EXCEPT ![d].pc = "upload"]
            /\ UNCHANGED <<complianceIssues, timelineEvents>>
    /\ UNCHANGED <<now, versions, call, result, runs, authSessions>>

\* lines 92-111: one event per critical issue, then the answer
ProcLogIssue(d) ==
    /\ Quiet
    /\ procs[d].pc = "logIssue"
    /\ LET res == procs[d].complianceResult IN
       procs' = [procs EXCEPT ![d] =
                   IF @.left > 1 THEN [@ EXCEPT !.left = @ - 1]
                   ELSE [pc |-> "done",
                         response |-> [status |-> 400, success |-> FALSE,
                                       documentId |-> d,
                                       complianceScore |-> res.score,
                                       issues |-> res.issues,
                                       error |-> "blocked"]]]
    /\ timelineEvents' =
           IF procs[d].left > 1
           THEN createEvent(timelineEvents, d, "compliance_issue_detected")
           ELSE timelineEvents
    /\ UNCHANGED <<now, versions, call, result, documents, complianceIssues,
                   runs, authSessions>>

\* syncDocument 589-614: the folder and the upload answered (ok) or failed;
\* the version row, the expiry date, the sharing link asked for
ProcUpload(d, ok) ==
    /\ Quiet
    /\ procs[d].pc = "upload"
    /\ IF ok
       THEN /\ versions' = versions \cup
                   {[documentId |-> d,
                     versionNumber |-> getVersionCount(versions, d) + 1]}
            /\ procs' = [procs EXCEPT ![d] =
                           [@ EXCEPT !.pc = "createLink"] @@
                           [expiryDate |-> now + 30 * DayLength,
                            versionId |-> <<d, getVersionCount(versions, d) + 1>>]]
            /\ UNCHANGED documents
       ELSE /\ documents' = documentUpdate(documents, d, [status |-> "error"])
            /\ procs' = [procs EXCEPT ![d] = caught(d)]
            /\ UNCHANGED versions
    /\ UNCHANGED <<now, call, result, complianceIssues, runs,
                   timelineEvents, authSessions>>

\* syncDocument 617-628 and processDocument 125-142: status synced with the
\* link, the issues, the score, the sync event sent to HubSpot
ProcCreateLink(d, ok) ==
    /\ Quiet
    /\ procs[d].pc = "createLink"
    /\ LET res == procs[d].complianceResult IN
       IF ok
       THEN /\ documents' =
                   documentUpdate(
                       documentUpdate(documents, d,
                           [sharepointDriveItemId |-> [driveItem |-> d],
                            secureLink |-> "link",
                            secureLinkExpiry |-> [date |-> procs[d].expiryDate],
                            currentVersionId |-> procs[d].versionId,
                            status |-> "synced"]),
                       d, [complianceScore |-> res.score])
            /\ complianceIssues' =
                   IF Len(res.issues) > 0
                   THEN createIssues(complianceIssues, d, res.issues)
                   ELSE complianceIssues
            /\ procs' = [procs EXCEPT ![d].pc = "logSynced"]
            /\ timelineEvents' =
                   createEvent(timelineEvents, d, "document_synced")
       ELSE /\ documents' = documentUpdate(documents, d, [status |-> "error"])
            /\ procs' = [procs EXCEPT ![d] = caught(d)]
            /\ UNCHANGED <<complianceIssues, timelineEvents>>
    /\ UNCHANGED <<now, versions, call, result, runs, authSessions>>

\* lines 145-152: the note with the secure link asked of HubSpot
ProcLogSynced(d) ==
    /\ Quiet
    /\ procs[d].pc = "logSynced"
    /\ procs' = [procs EXCEPT ![d].pc = "replace"]
    /\ UNCHANGED <<now, versions, call, result, documents, complianceIssues,
                   runs,
                   timelineEvents, authSessions>>

\* lines 155-172: the note made (ok), or axios threw into the catch block
ProcReplace(d, ok) ==
    /\ Quiet
    /\ procs[d].pc = "replace"
    /\ LET res == procs[d].complianceResult IN
       IF ok
       THEN /\ procs' = [procs EXCEPT ![d] =
                   [pc |-> "done",
                    response |-> [status |-> 201, success |-> TRUE,
                                  documentId |-> d, secureLink |-> "link",
                                  complianceScore |-> res.score,
                                  issues |-> IF Len(res.issues) > 0
                                             THEN res.issues
                                             ELSE Undefined]]]
            /\ UNCHANGED documents
       ELSE /\ documents' = documentUpdate(documents, d, [status |-> "error"])
            /\ procs' = [procs EXCEPT ![d] = caught(d)]
    /\ UNCHANGED <<now, versions, call, result, complianceIssues, runs,
                   timelineEvents, authSessions>>

(***************************************************************************)
(* The issue routes and the clock.                                         *)
(***************************************************************************)
Handled == {i \in complianceIssues : i.status # "open"}

\* ComplianceService.resolveIssue on the id of a stored issue
ResolveIssue(id) ==
    /\ Quiet
    /\ \E i \in complianceIssues :
          i.id = id /\ (i.status = "open" => Cardinality(Handled) < MaxHandled)
    /\ complianceIssues' = complianceIssueUpdate(complianceIssues, id, "resolved")
    /\ UNCHANGED <<now, versions, call, result, documents, runs, procs,
                   timelineEvents, authSessions>>

\* ComplianceService.acknowledgeIssue on the id of a stored issue
AcknowledgeIssue(id) ==
    /\ Quiet
    /\ \E i \in complianceIssues :
          i.id = id /\ (i.status = "open" => Cardinality(Handled) < MaxHandled)
    /\ complianceIssues' =
           complianceIssueUpdate(complianceIssues, id, "acknowledged")
    /\ UNCHANGED <<now, versions, call, result, documents, runs, procs,
                   timelineEvents, authSessions>>

\* res.json(...) or res.status(500).json(...) of the compliance-check route
RunReturn(r) ==
    /\ runs[r].pc \in {"done", "failed"}
    /\ runs' = [runs EXCEPT ![r] = [pc |-> "idle"]]
    /\ UNCHANGED <<now, versions, call, result, documents, complianceIssues,
                   procs,
                   timelineEvents, authSessions>>

\* res.status(result.success ? 201 : 400).json(result) of the upload routes
ProcReturn(d) ==
    /\ procs[d].pc = "done"
    /\ procs' = [procs EXCEPT ![d] = [pc |-> "returned"]]
    /\ UNCHANGED <<now, versions, call, result, documents, complianceIssues,
                   runs,
                   timelineEvents, authSessions>>

\* 24 days pass
Advance ==
    /\ Quiet
    /\ now < MaxAdvances * AdvanceStep
    /\ now' = now + AdvanceStep
    /\ UNCHANGED <<versions, call, result, app>>

IssueIds == {i.id : i \in complianceIssues}

Init ==
    /\ now = 0
    /\ versions = {}
    /\ call = [op |-> "none"]
    /\ result = Pending
    /\ InitApp

Next ==
    \/ \E upload \in Uploads : ProcStart(upload)
    \/ \E d \in DocIds : ProcLogUploaded(d)
    \/ \E d \in DocIds : ProcLogIssue(d)
    \/ \E d \in DocIds, ok \in BOOLEAN : ProcUpload(d, ok)
    \/ \E d \in DocIds, ok \in BOOLEAN : ProcCreateLink(d, ok)
    \/ \E d \in DocIds : ProcLogSynced(d)
    \/ \E d \in DocIds, ok \in BOOLEAN : ProcReplace(d, ok)
    \/ ~RunBusy /\ RunStart(CHOOSE r \in RunIds : runs[r].pc = "idle")
    \/ \E r \in RunIds : RunPersist(r)
    \/ \E r \in RunIds : RunScore(r)
    \/ \E r \in RunIds : RunReturn(r)
    \/ \E d \in DocIds : ProcReturn(d)
    \/ \E id \in IssueIds : ResolveIssue(id)
    \/ \E id \in IssueIds : AcknowledgeIssue(id)
    \/ Advance

\* the application: uploads, periodic checks one at a time, issue handling,
\* passing time
Spec == Init /\ [][Next]_vars

(***************************************************************************)
(* Properties of runPeriodicCheck.                                         *)
(***************************************************************************)
\* run r takes a step from the place where it persists the issues of a
\* document
PersistStep(r) == runs[r].pc = "persist" /\ runs'[r] # runs[r]

\* what the three checks detect for the document the run is at: the issues
\* of checkDocument it holds, then the link issue, then the version issue
Detected(run) ==
    LET doc == run.docs[run.i]
        link == IF doc.secureLinkExpiry = Null THEN Null
                ELSE checkLinkExpiry(doc.secureLinkExpiry, now)
        version == checkVersionCount(versions, doc.id, DefaultMaxVersions)
    IN run.result.issues
         \o (IF link = Null THEN <<>> ELSE <<link>>)
         \o (IF version = Null THEN <<>> ELSE <<version>>)

OpenTypes(d) ==
    {i.type : i \in {x \in complianceIssues :
                        x.documentId = d /\ x.status = "open"}}

\* the content of an issue row: what was detected, without id and status
ContentOf(row) == [f \in DOMAIN row \ {"id", "documentId", "status"} |-> row[f]]

\* C14: a step of runPeriodicCheck on a document creates one open row for
\* each detected issue whose type had no open row for that document before
\* the step, and no other row.
C14_NetNewOnly ==
    [][\A r \in RunIds :
         PersistStep(r) =>
           LET d == runs[r].docs[runs[r].i].id
               created == complianceIssues' \ complianceIssues
               netNew == SelectSeq(Detected(runs[r]),
                                   LAMBDA x : x.type \notin OpenTypes(d))
           IN /\ \A c \in created :
                    /\ c.documentId = d
                    /\ c.status = "open"
                    /\ c.type \notin OpenTypes(d)
              /\ {ContentOf(c) : c \in created} =
                     {netNew[k] : k \in 1..Len(netNew)}
              /\ Cardinality(created) = Len(netNew)
              /\ \A c \in complianceIssues : c \in complianceIssues']_vars

\* a run has just recreated, as a new open row, an issue of a type whose
\* earlier row was resolved
C14_Witness ==
    \E r \in RunIds :
        /\ runs[r].pc = "score"
        /\ \E i, j \in complianceIssues :
              /\ i.documentId = runs[r].docs[runs[r].i].id
              /\ j.documentId = i.documentId
              /\ i.type = j.type
              /\ i.status = "resolved"
              /\ j.status = "open"
              /\ j.id[2] > i.id[2]

\* a run has passed a document whose detected issues all had an open row
C14_WitnessNothingNew ==
    \E r \in RunIds :
        /\ runs[r].pc = "done"
        /\ runs[r].response.documentsChecked = 1
        /\ runs[r].response.issuesFound = 0
        /\ OpenTypes(runs[r].docs[1].id) # {}

\* the types of issue checkDocument itself reports
CheckDocumentTypes ==
    {"file_too_large", "disallowed_file_type", "missing_metadata",
     "expired_document", "retention_policy_violation"}

\* run r leaves the document it is at: on to the next one, or to the return
LeavesDocument(r) ==
    /\ runs[r].pc \in {"persist", "score"}
    /\ runs'[r].pc = "done" \/ runs'[r].i > runs[r].i

\* C15: when runPeriodicCheck leaves a document, the stored score of that
\* document is the score of checkDocument: 100 less the deductions of the
\* issues checkDocument reported, not below 0.  The link and version issues
\* detected go onto the issue list and leave the score as it was.
C15_StoredScore ==
    [][\A r \in RunIds :
         /\ LeavesDocument(r) =>
              LET run == runs[r]
                  own == IssuesOfType(run.result.issues, CheckDocumentTypes)
              IN documents'[run.docs[run.i].id].complianceScore =
                     clampScore(100 - SumDeductions(own))
         /\ PersistStep(r) /\ runs'[r].pc = "score" =>
              /\ runs'[r].result.issues = Detected(runs[r])
              /\ runs'[r].result.score = runs[r].result.score]_vars

\* a link issue went onto the list of a document without any other issue,
\* and the run has stored 100
C15_Witness ==
    \E r \in RunIds :
        /\ runs[r].pc = "done"
        /\ \E k \in 1..Len(runs[r].docs) :
             LET d == runs[r].docs[k].id IN
             /\ documents[d].complianceScore = 100
             /\ OpenTypes(d) = {"link_expired"}
             /\ runs[r].response.issuesFound > 0

\* the tables and the clock as they were when run r began
Snapshot(r) == runs[r].start

SyncedAtStart(r) ==
    {d \in DocIds : /\ Snapshot(r).documents[d] # Null
                    /\ Snapshot(r).documents[d].status = "synced"}

\* C16: a run evaluates exactly the documents that were synced when it
\* began: they are the ones it holds, the count it answers is their number,
\* and at its end each has the score checkDocument gives it; the score and
\* the issues of every other document stay as they were.
C16_SyncedOnly ==
    \A r \in RunIds :
        runs[r].pc # "idle" =>
            /\ {runs[r].docs[k].id : k \in 1..Len(runs[r].docs)} = SyncedAtStart(r)
            /\ Len(runs[r].docs) = Cardinality(SyncedAtStart(r))
            /\ \A d \in DocIds \ SyncedAtStart(r) :
                  /\ documents[d] = Snapshot(r).documents[d]
                  /\ findByDocumentId(complianceIssues, d) =
                         findByDocumentId(Snapshot(r).complianceIssues, d)
            /\ runs[r].pc = "done" =>
                  /\ runs[r].response.documentsChecked =
                         Cardinality(SyncedAtStart(r))
                  /\ \A d \in SyncedAtStart(r) :
                        documents[d].complianceScore =
                            checkDocument(documents[d].originalFilename,
                                          documents[d].size,
                                          jsonParse(documents[d].metadata),
                                          Snapshot(r).now).score

\* a run over one synced document has ended while a blocked document with
\* issues of its own is in the table
C16_Witness ==
    \E r \in RunIds :
        /\ runs[r].pc = "done"
        /\ runs[r].response.documentsChecked = 1
        /\ \E d \in DocIds \ SyncedAtStart(r) :
              /\ documents[d] # Null
              /\ documents[d].status = "error"
              /\ findByDocumentId(complianceIssues, d) # {}

\* a run has ended with nothing to evaluate, though a document is stored
C16_WitnessNone ==
    \E r \in RunIds :
        /\ runs[r].pc = "done"
        /\ runs[r].response.documentsChecked = 0
        /\ \E d \in DocIds : documents[d] # Null

(***************************************************************************)
(* Properties of processDocument.                                          *)
(***************************************************************************)
\* the document d is stored as blocked with the result res: status error,
\* the score of res, one row per issue of res, nothing of SharePoint
StoredBlocked(d, res) ==
    /\ documents[d] # Null
    /\ documents[d].status = "error"
    /\ documents[d].complianceScore = res.score
    /\ {ContentOf(c) : c \in findByDocumentId(complianceIssues, d)} =
           {res.issues[k] : k \in 1..Len(res.issues)}
    /\ Cardinality(findByDocumentId(complianceIssues, d)) = Len(res.issues)
    /\ getVersionCount(versions, d) = 0
    /\ documents[d].secureLink = Null
    /\ documents[d].secureLinkExpiry = Null
    /\ documents[d].currentVersionId = Null

\* the invocation for d is past the event of the upload
PastDecision(d) ==
    procs[d].pc \in {"logIssue", "upload", "createLink", "logSynced", "replace"}

\* C20: when checkDocument reported a critical issue, processDocument goes
\* nowhere near SharePoint: the document is stored with status error, the
\* computed score and one row, open when written, for every reported
\* issue, critical or not; it has no version row and no secure link; the
\* answer has success = FALSE.
C20_BlockedOnCritical ==
    /\ [](\A d \in DocIds :
            /\ PastDecision(d)
               /\ HasSeverity(procs[d].complianceResult.issues, "critical")
               => /\ procs[d].pc = "logIssue"
                  /\ StoredBlocked(d, procs[d].complianceResult)
            /\ procs[d].pc = "done"
               /\ "complianceScore" \in DOMAIN procs[d].response
               /\ procs[d].response.issues # Undefined
               /\ HasSeverity(procs[d].response.issues, "critical")
               => /\ procs[d].response.success = FALSE
                  /\ StoredBlocked(d, [issues |-> procs[d].response.issues,
                                       score |-> procs[d].response.complianceScore]))
    /\ [][\A d \in DocIds :
            /\ procs[d].pc = "logUploaded"
            /\ procs'[d].pc # "logUploaded"
            /\ HasSeverity(procs[d].complianceResult.issues, "critical")
            => \A c \in findByDocumentId(complianceIssues', d) :
                   c.status = "open"]_vars

\* a blocked upload has been answered: a critical issue and another one,
\* both stored
C20_Witness ==
    \E d \in DocIds :
        /\ procs[d].pc = "done"
        /\ procs[d].response.success = FALSE
        /\ "issues" \in DOMAIN procs[d].response
        /\ HasSeverity(procs[d].response.issues, "critical")
        /\ HasSeverity(procs[d].response.issues, "medium")
        /\ Cardinality(findByDocumentId(complianceIssues, d)) = 2
        /\ documents[d].status = "error"

\* an upload whose retention date has passed is blocked as well
C20_WitnessExpired ==
    \E d \in DocIds :
        /\ procs[d].pc = "logIssue"
        /\ \E c \in findByDocumentId(complianceIssues, d) :
              c.type = "expired_document"

(***************************************************************************)
(* A statement of the database throws while runPeriodicCheck runs: the     *)
(* promise is rejected and the route's catch block answers 500.            *)
(***************************************************************************)
\* res.status(500).json({ error: 'Failed to run compliance check' }); docs,
\* start and failedAt (the place in docs of the document the run was at)
\* are kept for the properties
failed(run, failedAt) ==
    [pc |-> "failed", docs |-> run.docs, start |-> run.start,
     failedAt |-> failedAt, response |-> [status |-> 500, error |-> "failed"]]

\* the SELECT of line 547 throws
RunStartFail(r) ==
    /\ runs[r].pc = "idle"
    /\ ~Answering
    /\ runs' = [runs EXCEPT ![r] =
                  failed([docs |-> <<>>,
                          start |-> [documents |-> documents,
                                     complianceIssues |-> complianceIssues,
                                     versions |-> versions, now |-> now]], 0)]
    /\ UNCHANGED <<now, versions, call, result, documents, complianceIssues,
                   procs,
                   timelineEvents, authSessions>>

\* the tables put back as they were when the run began
RunFailMutRollback(r) ==
    /\ runs[r].pc \in {"persist", "score"}
    /\ documents' = runs[r].start.documents
    /\ complianceIssues' = runs[r].start.complianceIssues
    /\ runs' = [runs EXCEPT ![r] = failed(runs[r], runs[r].i)]
    /\ UNCHANGED <<now, versions, call, result, procs,
                   timelineEvents, authSessions>>

\* a statement of lines 560-586 throws: a read, the insert after upTo
\* inserts of createIssues, or the update of the score
RunFail(r) ==
    /\ runs[r].pc \in {"persist", "score"}
    /\ LET run == runs[r]
           doc == run.docs[run.i]
           res == pushVersionIssue(pushLinkIssue(run.result, doc, now),
                                   doc, versions)
           newIssues == IF run.pc = "score" THEN <<>>
                        ELSE newIssuesOf(res.issues,
                                 existingTypes(complianceIssues, doc.id))
       IN \E upTo \in 0..Len(newIssues) :
             /\ upTo = 0 \/ upTo < Len(newIssues)
             /\ complianceIssues' =
                    createIssuesUpTo(complianceIssues, doc.id, newIssues, upTo)
    /\ runs' = [runs EXCEPT ![r] = failed(runs[r], runs[r].i)]
    /\ UNCHANGED <<now, versions, call, result, documents, procs,
                   timelineEvents, authSessions>>

NextFailure ==
    \/ Next
    \/ ~RunBusy /\ RunStartFail(CHOOSE r \in RunIds : runs[r].pc = "idle")
    \/ \E r \in RunIds : RunFail(r)

\* the application with a database that may fail during a periodic check
SpecFailure == Init /\ [][NextFailure]_vars

\* C19: a run that met a failing store operation has stopped there and is
\* answered with 500: the documents before the one it was at have the score
\* and the issues the run gave them, the one it was at keeps its row and
\* loses no issue, the documents after it and all others are as they were
\* when the run began; once failed, the run changes nothing more.
C19_AbortKeepsEarlier ==
    /\ [](\A r \in RunIds :
            runs[r].pc = "failed" =>
              LET run == runs[r] IN
              /\ run.response.status = 500
              /\ \A k \in 1..Len(run.docs) :
                   LET d == run.docs[k].id
                       had == findByDocumentId(run.start.complianceIssues, d)
                       has == findByDocumentId(complianceIssues, d)
                   IN /\ k < run.failedAt =>
                           /\ documents[d].complianceScore =
                                  evaluate(run.docs[k], run.start.now).score
                           /\ had \subseteq has
                           /\ \A j \in 1..Len(evaluate(run.docs[k],
                                                       run.start.now).issues) :
                                  evaluate(run.docs[k], run.start.now).issues[j].type
                                      \in {i.type : i \in {x \in has :
                                                            x.status = "open"}}
                      /\ k = run.failedAt =>
                           /\ documents[d] = run.start.documents[d]
                           /\ had \subseteq has
                      /\ k > run.failedAt =>
                           /\ documents[d] = run.start.documents[d]
                           /\ had = has
              /\ \A d \in DocIds \ {run.docs[k].id : k \in 1..Len(run.docs)} :
                   /\ documents[d] = run.start.documents[d]
                   /\ findByDocumentId(complianceIssues, d) =
                          findByDocumentId(run.start.complianceIssues, d))
    /\ [][(\E r \in RunIds : runs[r].pc = "failed")
            => UNCHANGED <<documents, complianceIssues, versions>>]_vars

\* a run failed at its second document after writing an issue and a score
\* for the first
C19_Witness ==
    \E r \in RunIds :
        /\ runs[r].pc = "failed"
        /\ runs[r].failedAt = 2
        /\ LET d == runs[r].docs[1].id IN
           /\ findByDocumentId(complianceIssues, d) #
                  findByDocumentId(runs[r].start.complianceIssues, d)
           /\ documents[d].complianceScore #
                  runs[r].start.documents[d].complianceScore

\* a run failed on the update of the score of its first document, after
\* createIssues had inserted a row: the row stays, the score is not written
C19_WitnessPartial ==
    \E r \in RunIds :
        /\ runs[r].pc = "failed"
        /\ runs[r].failedAt = 1
        /\ LET d == runs[r].docs[1].id IN
           /\ findByDocumentId(runs[r].start.complianceIssues, d) = {}
           /\ Cardinality(findByDocumentId(complianceIssues, d)) = 1

(***************************************************************************)
(* The process dies and is started again.  What the tables hold stays      *)
(* (every statement is its own transaction), every invocation under way is *)
(* gone.  When a periodic check is cut short, call keeps the tables as     *)
(* they were when it began, and from then on the check is run again and    *)
(* nothing else is asked of the application.                               *)
(***************************************************************************)
\* the invocations of processDocument under way are gone with the process
lost(ps) ==
    [d \in DocIds |->
        IF ps[d].pc \in {"idle", "returned", "lost"} THEN ps[d]
        ELSE [pc |-> "lost"]]

Interrupted == call.op = "runPeriodicCheck"

\* the first interruption is the one remembered
interrupt(run) ==
    IF Interrupted THEN call
    ELSE [op |-> "runPeriodicCheck", interrupted |-> run.start]

\* the process dies after a statement of runPeriodicCheck: before the first
\* insert of createIssues, after its last, or after the update of the score
Crash(r) ==
    /\ runs[r].pc \in {"persist", "score"}
    /\ call' = interrupt(runs[r])
    /\ runs' = [x \in RunIds |-> [pc |-> "idle"]]
    /\ procs' = lost(procs)
    /\ UNCHANGED <<now, versions, result, documents, complianceIssues,
                   timelineEvents, authSessions>>

\* the process dies inside createIssues, after upTo of its inserts
CrashInCreateIssues(r) ==
    /\ runs[r].pc = "persist"
    /\ LET run == runs[r]
           doc == run.docs[run.i]
           res == pushVersionIssue(pushLinkIssue(run.result, doc, now),
                                   doc, versions)
           newIssues == newIssuesOf(res.issues,
                                    existingTypes(complianceIssues, doc.id))
       IN \E upTo \in 1..Len(newIssues) :
             /\ upTo < Len(newIssues)
             /\ complianceIssues' =
                    createIssuesUpTo(complianceIssues, doc.id, newIssues, upTo)
    /\ call' = interrupt(runs[r])
    /\ runs' = [x \in RunIds |-> [pc |-> "idle"]]
    /\ procs' = lost(procs)
    /\ UNCHANGED <<now, versions, result, documents,
                   timelineEvents, authSessions>>

\* the process dies in processDocument between the update that makes the
\* document synced (part_004 620-628) and createIssues (part_002 126)
CrashAfterSync(d) ==
    /\ Quiet
    /\ ~Interrupted
    /\ procs[d].pc = "createLink"
    /\ documents' = documentUpdate(documents, d,
                        [secureLink |-> "link",
                         secureLinkExpiry |-> [date |-> procs[d].expiryDate],
                         currentVersionId |-> procs[d].versionId,
                         status |-> "synced"])
    /\ procs' = lost(procs)
    /\ UNCHANGED <<now, versions, call, result, complianceIssues, runs,
                   timelineEvents, authSessions>>

\* uploads without a critical issue: all metadata given, or none of it
CrashUploads ==
    {u \in Uploads : u.size = 1024 /\ u.filename = ReportPdf}

NextCrash ==
    \/ /\ ~Interrupted
       /\ \/ \E upload \in CrashUploads : ProcStart(upload)
          \/ \E d \in DocIds : ProcLogUploaded(d)
          \/ \E d \in DocIds, ok \in BOOLEAN : ProcUpload(d, ok)
          \/ \E d \in DocIds, ok \in BOOLEAN : ProcCreateLink(d, ok)
          \/ \E d \in DocIds : ProcLogSynced(d)
          \/ \E d \in DocIds, ok \in BOOLEAN : ProcReplace(d, ok)
          \/ \E d \in DocIds : ProcReturn(d)
          \/ Advance
    \/ ~RunBusy /\ RunStart(CHOOSE r \in RunIds : runs[r].pc = "idle")
    \/ \E r \in RunIds : RunPersist(r)
    \/ \E r \in RunIds : RunScore(r)
    \/ \E r \in RunIds : RunReturn(r)
    \/ \E r \in RunIds : Crash(r)
    \/ \E r \in RunIds : CrashInCreateIssues(r)
    \/ \E d \in DocIds : CrashAfterSync(d)

\* uploads and periodic checks with a process that may die
SpecCrash == Init /\ [][NextCrash]_vars

\* what a periodic check detects for the row doc at clock value t
DetectedFor(doc, versionRows, t) ==
    LET link == IF doc.secureLinkExpiry = Null THEN Null
                ELSE checkLinkExpiry(doc.secureLinkExpiry, t)
        version == checkVersionCount(versionRows, doc.id, DefaultMaxVersions)
    IN evaluate(doc, t).issues
         \o (IF link = Null THEN <<>> ELSE <<link>>)
         \o (IF version = Null THEN <<>> ELSE <<version>>)

OpenRows(rows, d) == {x \in rows : x.documentId = d /\ x.status = "open"}

\* the issues one run from the tables S, never cut short, adds for d
AddedByRun(S, d) ==
    IF S.documents[d] # Null /\ S.documents[d].status = "synced"
    THEN SelectSeq(DetectedFor(S.documents[d], S.versions, S.now),
                   LAMBDA x : x.type \notin
                        {i.type : i \in OpenRows(S.complianceIssues, d)})
    ELSE <<>>

\* how many open issues with content x the document d has after that run
ExpectedOpen(S, d, x) ==
    Cardinality({i \in OpenRows(S.complianceIssues, d) : ContentOf(i) = x})
    + Len(SelectSeq(AddedByRun(S, d), LAMBDA y : y = x))

ExpectedScore(S, d) ==
    IF S.documents[d] # Null /\ S.documents[d].status = "synced"
    THEN evaluate(S.documents[d], S.now).score
    ELSE IF S.documents[d] # Null THEN S.documents[d].complianceScore ELSE 100

\* the contents of issues to compare: those stored and those expected
Contents(S, d) ==
    {ContentOf(i) : i \in findByDocumentId(complianceIssues, d)}
    \cup {AddedByRun(S, d)[k] : k \in 1..Len(AddedByRun(S, d))}

\* C17: after a periodic check was cut short and the check was run again
\* to its end, every document has the open issues and the score that one
\* check never cut short would have left, starting from the same tables.
C17_ResumeEqualsUninterrupted ==
    Interrupted /\ (\E r \in RunIds : runs[r].pc = "done") =>
        \A d \in DocIds :
            /\ documents[d] # Null =>
                  documents[d].complianceScore = ExpectedScore(call.interrupted, d)
            /\ \A x \in Contents(call.interrupted, d) :
                  Cardinality({i \in OpenRows(complianceIssues, d) :
                                  ContentOf(i) = x})
                      = ExpectedOpen(call.interrupted, d, x)

\* the part that holds: after the check was run again to its end, every
\* document synced at the start has checkDocument's score, every type
\* detected for it has an open issue, and no other document has changed
C17_ResumeCoversTypes ==
    Interrupted /\ (\E r \in RunIds : runs[r].pc = "done") =>
        LET S == call.interrupted IN
        \A d \in DocIds :
            IF S.documents[d] # Null /\ S.documents[d].status = "synced"
            THEN /\ documents[d].complianceScore = ExpectedScore(S, d)
                 /\ \A k \in 1..Len(DetectedFor(S.documents[d], S.versions, S.now)) :
                       DetectedFor(S.documents[d], S.versions, S.now)[k].type
                           \in {i.type : i \in OpenRows(complianceIssues, d)}
                 /\ findByDocumentId(S.complianceIssues, d)
                        \subseteq findByDocumentId(complianceIssues, d)
            ELSE /\ documents[d] = S.documents[d]
                 /\ findByDocumentId(complianceIssues, d) =
                        findByDocumentId(S.complianceIssues, d)

\* the check run again has ended; the first one died between the insert of
\* the category issue and the insert of the confidentiality issue
C17_Witness ==
    /\ Interrupted
    /\ \E r \in RunIds : runs[r].pc = "done"
    /\ \E d \in DocIds :
          /\ Len(AddedByRun(call.interrupted, d)) = 2
          /\ Cardinality(OpenRows(complianceIssues, d)) = 1

(***************************************************************************)
(* Two periodic checks under way together: each gives way to the other at  *)
(* its awaits (after checkDocument, after createIssues), so the evaluation *)
(* of one document by one run falls between the steps of the evaluation of *)
(* another, or of the same, document by the other run.                     *)
(***************************************************************************)
NextConcurrent ==
    \/ \E upload \in Uploads : ProcStart(upload)
    \/ \E d \in DocIds : ProcLogUploaded(d)
    \/ \E d \in DocIds : ProcLogIssue(d)
    \/ \E d \in DocIds, ok \in BOOLEAN : ProcUpload(d, ok)
    \/ \E d \in DocIds, ok \in BOOLEAN : ProcCreateLink(d, ok)
    \/ \E d \in DocIds : ProcReturn(d)
    \/ Advance
    \/ \E r \in RunIds : RunStart(r)
    \/ \E r \in RunIds : RunPersist(r)
    \/ \E r \in RunIds : RunScore(r)
    \/ \E r \in RunIds : RunReturn(r)

\* uploads and periodic checks that overlap
SpecConcurrent == Init /\ [][NextConcurrent]_vars

\* C18: however the evaluations of two runs under way together interleave,
\* a run that has ended leaves every document with the open issues and the
\* score that evaluating the documents one after another, from the tables
\* as they were when it began, would have left.
C18_InterleavingEqualsSequential ==
    \A r \in RunIds :
        runs[r].pc = "done" =>
            \A d \in DocIds :
                /\ documents[d] # Null =>
                      documents[d].complianceScore =
                          ExpectedScore(Snapshot(r), d)
                /\ \A x \in Contents(Snapshot(r), d) :
                      Cardinality({i \in OpenRows(complianceIssues, d) :
                                      ContentOf(i) = x})
                          = ExpectedOpen(Snapshot(r), d, x)

\* one run has ended after creating issues while the other, begun from the
\* same tables, is still at its first document, a different one from the
\* first document of the run that ended
C18_Witness ==
    \E r, q \in RunIds :
        /\ runs[r].pc = "done"
        /\ Len(runs[r].docs) = 2
        /\ runs[r].response.issuesFound > 0
        /\ runs[q].pc \in {"persist", "score"}
        /\ runs[q].i = 1
        /\ runs[q].docs[1].id # runs[r].docs[1].id
        /\ runs[q].start = runs[r].start

\* both runs were at the same document together: one created its issues
\* while the other had the result of checkDocument for it in hand
C18_WitnessSameDocument ==
    \E r, q \in RunIds :
        /\ runs[r].pc = "score"
        /\ runs[q].pc = "persist"
        /\ runs[q].docs[runs[q].i].id = runs[r].docs[runs[r].i].id

(***************************************************************************)
(* checkDocument called twice while documents are uploaded and time        *)
(* passes: the tables fill between and around the two calls.               *)
(***************************************************************************)
PureArgs ==
    { [filename |-> MalwareExe, size |-> 1024, metadata |-> Undefined],
      [filename |-> ReportPdf, size |-> maxSizeBytes + 1,
       metadata |-> [retentionDate |-> 20 * DayLength] @@ CompleteMetadata] }

InitPure ==
    /\ now = 0
    /\ versions = {}
    /\ call \in [op : {"checkDocumentTwice"}, first : PureArgs, second : PureArgs]
    /\ result = <<>>
    /\ InitApp

NextPure ==
    \/ CheckFirst
    \/ CheckSecond
    \/ \E upload \in CrashUploads : ProcStart(upload)
    \/ \E d \in DocIds : ProcLogUploaded(d)
    \/ \E d \in DocIds, ok \in BOOLEAN : ProcUpload(d, ok)
    \/ \E d \in DocIds, ok \in BOOLEAN : ProcCreateLink(d, ok)
    \/ Advance

\* checkDocument beside the uploads
SpecPure == InitPure /\ [][NextPure]_vars

C11_WitnessClock ==
    /\ Len(result) = 2
    /\ call.first = call.second
    /\ call.at1 # call.at2
    /\ result[1] # result[2]

(***************************************************************************)
(* DocumentGovernanceService.refreshLink, one invocation at a time: call   *)
(* holds the invocation (its document, the expiry date it computed, where  *)
(* it is), result what it returned, Pending until it returns.              *)
(***************************************************************************)
Refreshing(pc) == call.op = "refreshLink" /\ call.pc = pc

\* the bound on the links made by refreshLink
MaxRefreshes == 1

Refreshes == {e \in timelineEvents : e.eventType = "link_refreshed"}

\* link_expired issues of the document that are open
openLinkIssues(rows, documentId) ==
    {i \in findByDocumentId(rows, documentId) :
        i.type = "link_expired" /\ i.status = "open"}

\* lines 183-195: the row looked up; no row or no drive item, the answer at
\* once; else the expiry date and the sharing link asked of Microsoft Graph
RefreshStart(d) ==
    /\ Quiet
    /\ call.op = "none"
    /\ Cardinality(Refreshes) < MaxRefreshes
    /\ LET doc == documents[d] IN
       IF doc = Null \/ doc.sharepointDriveItemId = Null
       THEN /\ result' = [success |-> FALSE, documentId |-> d,
                          error |-> "not synced"]
            /\ UNCHANGED call
       ELSE /\ call' = [op |-> "refreshLink", documentId |-> d,
                        pc |-> "createLink",
                        expiryDate |-> now + 30 * DayLength]
            /\ result' = Pending
    /\ UNCHANGED <<now, versions, app>>

\* lines 190-210: the link made (ok): the row updated, the event sent to
\* HubSpot; or createSharingLink threw into the catch block, lines 220-225
RefreshCreateLink(ok) ==
    /\ Quiet
    /\ Refreshing("createLink")
    /\ IF ok
       THEN /\ documents' = documentUpdate(documents, call.documentId,
                                [secureLink |-> "refreshed",
                                 secureLinkExpiry |-> [date |-> call.expiryDate]])
            /\ call' = [call EXCEPT !.pc = "log"]
            /\ timelineEvents' =
                   createEvent(timelineEvents, call.documentId, "link_refreshed")
            /\ UNCHANGED result
       ELSE /\ call' = [op |-> "none"]
            /\ result' = [success |-> FALSE, documentId |-> call.documentId,
                          error |-> "thrown"]
            /\ UNCHANGED <<documents, timelineEvents>>
    /\ UNCHANGED <<now, versions, complianceIssues, runs, procs,
                   authSessions>>

\* the answer of a refreshLink that went through
refreshed == [success |-> TRUE, documentId |-> call.documentId,
              newLink |-> "refreshed", newExpiry |-> call.expiryDate]

\* the first open link_expired issue found is left open
RefreshLoggedMutKeep ==
    /\ Quiet
    /\ Refreshing("log")
    /\ call' = [op |-> "none"]
    /\ result' = refreshed
    /\ UNCHANGED <<now, versions, app>>

\* lines 212-219: after the event, the first open link_expired issue of the
\* document resolved, the answer
RefreshLogged ==
    /\ Quiet
    /\ Refreshing("log")
    /\ LET found == openLinkIssues(complianceIssues, call.documentId) IN
       IF found # {}
       THEN \E linkIssue \in found :
               complianceIssues' =
                   complianceIssueUpdate(complianceIssues, linkIssue.id,
                                         "resolved")
       ELSE UNCHANGED complianceIssues
    /\ call' = [op |-> "none"]
    /\ result' = refreshed
    /\ UNCHANGED <<now, versions, documents, runs, procs,
                   timelineEvents, authSessions>>

\* the uploads beside refreshLink: a file without metadata fields
RefreshUploads == {u \in CrashUploads : u.metadata # CompleteMetadata}

\* uploads without a critical issue, periodic checks one at a time, issue
\* handling, passing time, and refreshLink
NextRefresh ==
    \/ \E upload \in RefreshUploads : ProcStart(upload)
    \/ \E d \in DocIds : ProcLogUploaded(d)
    \/ \E d \in DocIds, ok \in BOOLEAN : ProcUpload(d, ok)
    \/ \E d \in DocIds, ok \in BOOLEAN : ProcCreateLink(d, ok)
    \/ \E d \in DocIds : ProcLogSynced(d)
    \/ \E d \in DocIds, ok \in BOOLEAN : ProcReplace(d, ok)
    \/ \E d \in DocIds : ProcReturn(d)
    \/ ~RunBusy /\ RunStart(CHOOSE r \in RunIds : runs[r].pc = "idle")
    \/ \E r \in RunIds : RunPersist(r)
    \/ \E r \in RunIds : RunScore(r)
    \/ \E r \in RunIds : RunReturn(r)
    \/ \E id \in IssueIds : ResolveIssue(id)
    \/ \E id \in IssueIds : AcknowledgeIssue(id)
    \/ Advance
    \/ \E d \in DocIds : RefreshStart(d)
    \/ \E ok \in BOOLEAN : RefreshCreateLink(ok)
    \/ RefreshLogged

SpecRefresh == Init /\ [][NextRefresh]_vars

(***************************************************************************)
(* The status synced.                                                      *)
(***************************************************************************)
Synced(docs, d) == docs[d] # Null /\ docs[d].status = "synced"

\* C21: a document whose status is synced keeps that status in every step
\* of processDocument, refreshLink, runPeriodicCheck, resolveIssue and
\* acknowledgeIssue.
C21_SyncedTerminal ==
    [][\A d \in DocIds : Synced(documents, d) => Synced(documents', d)]_vars

\* the part that holds: the one step that takes a document out of status
\* synced is the catch block of the processDocument that synced it, entered
\* from replaceAttachmentWithLink, and it sets the status error
C21_SyncedUntilCaught ==
    [][\A d \in DocIds :
          Synced(documents, d) /\ ~Synced(documents', d) =>
              /\ procs[d].pc = "replace"
              /\ procs'[d] = caught(d)
              /\ documents'[d] = [documents[d] EXCEPT !.status = "error"]]_vars

\* processDocument has answered with the error thrown by
\* replaceAttachmentWithLink: the document, in SharePoint with its link, has
\* status error
C21_Witness ==
    \E d \in DocIds :
        /\ procs[d].pc = "returned"
        /\ documents[d].status = "error"
        /\ documents[d].sharepointDriveItemId # Null
        /\ documents[d].secureLink = "link"

C24_WitnessFailure ==
    /\ call.op = "none"
    /\ result # Pending
    /\ ~result.success
    /\ result.error = "thrown"
    /\ openLinkIssues(complianceIssues, result.documentId) # {}
    /\ documents[result.documentId].secureLink = "link"

(***************************************************************************)
(* TimelineService.createEvent step by step, one invocation at a time,     *)
(* beside uploads: call holds the invocation while the note is asked of    *)
(* HubSpot, result the id it returned with the id HubSpot gave the note    *)
(* (Null when the call failed).                                            *)
(***************************************************************************)
\* the bound on the rows of timeline_events
MaxEvents == 4

\* events logged for a document outside processDocument
EventTypes == {"document_version_created", "compliance_issue_resolved"}

\* lines 20-63: the id, the local record, the note asked of HubSpot
CreateEventStart(documentId, eventType) ==
    /\ call.op = "none"
    /\ documents[documentId] # Null
    /\ Cardinality(timelineEvents) < MaxEvents
    /\ LET event == localEvent(timelineEvents, documentId, eventType) IN
       /\ timelineEvents' = timelineEventCreate(timelineEvents, event)
       /\ call' = [op |-> "createEvent", event |-> event]
    /\ result' = Pending
    /\ UNCHANGED <<now, versions, documents, complianceIssues, runs, procs,
                   authSessions>>

\* lines 63-81: the note made (ok) and the record inserted again with the id
\* of the note, or the call failed; one catch for both; the id returned
CreateEventPosted(ok) ==
    /\ call.op = "createEvent"
    /\ LET hubspotId == IF ok THEN [note |-> call.event.id] ELSE Null IN
       /\ timelineEvents' =
              IF ok
              THEN timelineEventCreate(timelineEvents,
                       [call.event EXCEPT !.hubspotTimelineEventId = hubspotId])
              ELSE timelineEvents
       /\ result' = [eventId |-> call.event.id, hubspotId |-> hubspotId]
    /\ call' = [op |-> "none"]
    /\ UNCHANGED <<now, versions, documents, complianceIssues, runs, procs,
                   authSessions>>

NextTimeline ==
    \/ \E upload \in RefreshUploads : ProcStart(upload)
    \/ \E d \in DocIds : ProcLogUploaded(d)
    \/ \E d \in DocIds, ok \in BOOLEAN : ProcUpload(d, ok)
    \/ \E d \in DocIds, ok \in BOOLEAN : ProcCreateLink(d, ok)
    \/ \E d \in DocIds : ProcLogSynced(d)
    \/ \E d \in DocIds, ok \in BOOLEAN : ProcReplace(d, ok)
    \/ \E d \in DocIds : ProcReturn(d)
    \/ \E d \in DocIds, eventType \in EventTypes : CreateEventStart(d, eventType)
    \/ \E ok \in BOOLEAN : CreateEventPosted(ok)

\* uploads and events logged for the documents
SpecTimeline == Init /\ [][NextTimeline]_vars

Returned == call.op = "none" /\ result # Pending

EventsWithId(id) == {e \in timelineEvents : e.id = id}

\* C22: when createEvent has returned there is exactly one record with the
\* id it returned, and when the note was made that record carries the id of
\* the note.
C22_OneRecordWithHubSpotId ==
    Returned =>
        /\ Cardinality(EventsWithId(result.eventId)) = 1
        /\ result.hubspotId # Null =>
              \A e \in EventsWithId(result.eventId) :
                  e.hubspotTimelineEventId = result.hubspotId

\* the part that holds: exactly one record with the id returned, whether or
\* not the note was made, and it is the record of the first INSERT
C22_OneRecord ==
    Returned =>
        /\ Cardinality(EventsWithId(result.eventId)) = 1
        /\ \A e \in EventsWithId(result.eventId) :
              e.hubspotTimelineEventId = Null

\* createEvent has returned after HubSpot made the note
C22_Witness ==
    /\ Returned
    /\ result.hubspotId # Null
    /\ EventsWithId(result.eventId) # {}

(***************************************************************************)
(* Table auth_sessions and getValidAccessToken of the two OAuth services.  *)
(* authSessions[s] is the row with id s, Null while there is none; a       *)
(* column holds Null or a record: [token |-> ..] for a token, [date |-> t] *)
(* for an ISO date, [account |-> ..] for microsoft_user_id.  One           *)
(* invocation at a time: call holds it while the provider is asked for a   *)
(* new token; result is what it returned (value) together with what it had *)
(* read and obtained on the way, kept for the properties.                  *)
(***************************************************************************)
Providers == {"hubspot", "microsoft"}

Tokens == {[token |-> "t1"], [token |-> "t2"]}

\* expires_in of the token endpoint, in seconds: 5 and 7.5 minutes
ExpiresIn == {300, 450}

\* the clock moves by 2.5 minutes at a time, this many times
ElapseStep == 150

MaxElapse == 3

FiveMinutes == 5 * 60

EmptySession ==
    [hubspot_access_token |-> Null, hubspot_refresh_token |-> Null,
     hubspot_expires_at |-> Null, microsoft_access_token |-> Null,
     microsoft_expires_at |-> Null, microsoft_user_id |-> Null]

\* new Date(column).getTime(): new Date(null) is the epoch
getTime(column) == IF column = Null THEN 0 ELSE column.date

\* authSessionRepository.update: UPDATE ... WHERE id = ?
authSessionUpdate(sessions, s, updates) ==
    IF sessions[s] = Null THEN sessions
    ELSE [sessions EXCEPT ![s] = updates @@ @]

\* authSessionRepository.create
authSessionCreate(sessions, s, fields) ==
    [sessions EXCEPT ![s] = fields @@ EmptySession]

\* storeTokens of either service: the row updated, or made when there is none
storeTokens(sessions, s, fields) ==
    IF sessions[s] # Null THEN authSessionUpdate(sessions, s, fields)
    ELSE authSessionCreate(sessions, s, fields)

hubspotFields(token, expiresAt) ==
    [hubspot_access_token |-> token,
     hubspot_refresh_token |-> [token |-> "refresh"],
     hubspot_expires_at |-> [date |-> expiresAt]]

\* MicrosoftTokens of exchangeCodeForTokens: refreshToken '' is stored as NULL
microsoftFields(token, expiresAt) ==
    [microsoft_access_token |-> token,
     microsoft_expires_at |-> [date |-> expiresAt],
     microsoft_user_id |-> [account |-> "home"]]

accessToken(session, provider) ==
    IF provider = "hubspot" THEN session.hubspot_access_token
    ELSE session.microsoft_access_token

expiresAt(session, provider) ==
    IF provider = "hubspot" THEN getTime(session.hubspot_expires_at)
    ELSE getTime(session.microsoft_expires_at)

\* the stored token is handed out until it has expired
usesStoredMutExpired(provider, session, t) ==
    ~(expiresAt(session, provider) - t < 0)

\* HubSpot refreshes when expiresAt - now < 5 minutes; Microsoft hands out
\* the stored token when expiresAt - now > 5 minutes
usesStored(provider, session, t) ==
    IF provider = "hubspot"
    THEN ~(expiresAt(session, provider) - t < FiveMinutes)
    ELSE expiresAt(session, provider) - t > FiveMinutes

\* what getValidAccessToken returns, with what it read and obtained
answer(value, provider, s, session, readAt, obtained) ==
    [value |-> value, provider |-> provider, sessionId |-> s,
     session |-> session, readAt |-> readAt, obtained |-> obtained]

\* the OAuth callbacks: tokens of a new authorization stored
Connect(s, provider, token, expiresIn) ==
    /\ authSessions' =
           storeTokens(authSessions, s,
               IF provider = "hubspot"
               THEN hubspotFields(token, now + expiresIn)
               ELSE microsoftFields(token, now + expiresIn))
    /\ UNCHANGED <<now, versions, call, result, documents, complianceIssues,
                   runs, procs, timelineEvents>>

\* POST /oauth/disconnect
Disconnect(s, provider) ==
    /\ authSessions' =
           authSessionUpdate(authSessions, s,
               IF provider = "hubspot"
               THEN [hubspot_access_token |-> Null,
                     hubspot_refresh_token |-> Null,
                     hubspot_expires_at |-> Null]
               ELSE [microsoft_access_token |-> Null,
                     microsoft_expires_at |-> Null,
                     microsoft_user_id |-> Null])
    /\ UNCHANGED <<now, versions, call, result, documents, complianceIssues,
                   runs, procs, timelineEvents>>

\* getValidAccessToken up to its first await or its return
GetTokenStart(s, provider) ==
    /\ call.op = "none"
    /\ LET session == authSessions[s] IN
       IF session = Null \/ accessToken(session, provider) = Null
       THEN /\ result' = answer(Null, provider, s, session, now, Null)
            /\ UNCHANGED call
       ELSE IF usesStored(provider, session, now)
       THEN /\ result' = answer(accessToken(session, provider), provider, s,
                                session, now, Null)
            /\ UNCHANGED call
       ELSE IF provider = "microsoft" /\ session.microsoft_user_id = Null
       THEN /\ result' = answer(Null, provider, s, session, now, Null)
            /\ UNCHANGED call
       ELSE /\ call' = [op |-> "getValidAccessToken", provider |-> provider,
                        sessionId |-> s, session |-> session, readAt |-> now]
            /\ result' = Pending
    /\ UNCHANGED <<now, versions, app>>

\* the provider has answered: refreshAccessToken returned tokens or threw,
\* getAccessTokenSilent returned a token or null
GetTokenRefreshed(ok, token, expiresIn) ==
    /\ call.op = "getValidAccessToken"
    /\ LET s == call.sessionId IN
       IF ok
       THEN /\ authSessions' =
                   IF call.provider = "hubspot"
                   THEN storeTokens(authSessions, s,
                                    hubspotFields(token, now + expiresIn))
                   ELSE authSessionUpdate(authSessions, s,
                            [microsoft_access_token |-> token,
                             microsoft_expires_at |-> [date |-> now + 3600]])
            /\ result' = answer(token, call.provider, s, call.session,
                                call.readAt, token)
       ELSE /\ result' = answer(Null, call.provider, s, call.session,
                                call.readAt, Null)
            /\ UNCHANGED authSessions
    /\ call' = [op |-> "none"]
    /\ UNCHANGED <<now, versions, documents, complianceIssues, runs, procs,
                   timelineEvents>>

\* 2.5 minutes pass
Elapse ==
    /\ now < MaxElapse * ElapseStep
    /\ now' = now + ElapseStep
    /\ UNCHANGED <<versions, call, result, app>>

NextAuth ==
    \/ \E s \in SessionIds, provider \in Providers, token \in Tokens,
          expiresIn \in ExpiresIn : Connect(s, provider, token, expiresIn)
    \/ \E s \in SessionIds, provider \in Providers : Disconnect(s, provider)
    \/ \E s \in SessionIds, provider \in Providers : GetTokenStart(s, provider)
    \/ \E ok \in BOOLEAN, token \in Tokens, expiresIn \in ExpiresIn :
          GetTokenRefreshed(ok, token, expiresIn)
    \/ Elapse

\* sessions connected and disconnected, tokens asked for, time passing
SpecAuth == Init /\ [][NextAuth]_vars

\* a step in which getValidAccessToken returns
Returns == result' # Pending /\ result' # result

\* C23: getValidAccessToken returns null when there is no session or no
\* access token of the provider in it; when the stored token expires less
\* than 5 minutes after the read it returns null or a token obtained from
\* the provider in this invocation, which is then the session's access
\* token, with an expiry written at the return.
C23_ValidToken ==
    [][Returns =>
        LET r == result' IN
        /\ r.session = Null => r.value = Null
        /\ r.session # Null /\ accessToken(r.session, r.provider) = Null
              => r.value = Null
        /\ /\ r.value # Null
           /\ expiresAt(r.session, r.provider) - r.readAt < FiveMinutes
           => /\ r.obtained = r.value
              /\ accessToken(authSessions'[r.sessionId], r.provider) = r.value
              /\ expiresAt(authSessions'[r.sessionId], r.provider) \in
                    {now + e : e \in ExpiresIn \cup {3600}}]_vars

\* a token was returned for a session whose stored token had less than 5
\* minutes left: it came from the provider and is in the session
C23_Witness ==
    /\ call.op = "none"
    /\ result # Pending
    /\ result.value # Null
    /\ result.session # Null
    /\ expiresAt(result.session, result.provider) - result.readAt < FiveMinutes
    /\ accessToken(authSessions[result.sessionId], result.provider) = result.value

\* the stored token was returned with exactly 5 minutes left (HubSpot)
C23_WitnessAtFiveMinutes ==
    /\ result # Pending
    /\ result.value # Null
    /\ result.obtained = Null
    /\ expiresAt(result.session, result.provider) - result.readAt = FiveMinutes

\* null was returned for a session without the provider's access token
C23_WitnessNoToken ==
    /\ result # Pending
    /\ result.value = Null
    /\ result.session # Null
    /\ accessToken(result.session, result.provider) = Null

(***************************************************************************)
(* What processDocument has stored when it returns.                        *)
(***************************************************************************)
\* the step in which the invocation for d reaches its return statement
ProcAnswers(d) ==
    procs[d].pc \in {"logIssue", "upload", "createLink", "replace"}
        /\ procs'[d].pc = "done"

\* the row of d holds the score of res, and each issue of res has a row
Persisted(res, docs, rows, d) ==
    /\ docs[d].complianceScore = res.score
    /\ \A k \in 1..Len(res.issues) :
          \E row \in findByDocumentId(rows, d) : ContentOf(row) = res.issues[k]

\* C25: when processDocument returns and the row of its document exists,
\* the row holds the score checkDocument computed and every issue that
\* checkDocument reported has a row.
C25_ScoreAndIssuesStored ==
    [][\A d \in DocIds :
          ProcAnswers(d) /\ documents'[d] # Null =>
              Persisted(procs[d].complianceResult, documents',
                        complianceIssues', d)]_vars

\* the part that holds: after a throw of syncDocument (the upload or the
\* sharing link failed) the score is the default and the invocation stored
\* no issue; in every other outcome each reported issue has a row, and the
\* score is the one computed, or the one a periodic check wrote while the
\* invocation waited for HubSpot after the sync
C25_StoredUnlessSyncThrew ==
    [][\A d \in DocIds :
          ProcAnswers(d) /\ documents'[d] # Null =>
              LET res == procs[d].complianceResult IN
              IF procs[d].pc \in {"upload", "createLink"}
              THEN /\ documents'[d].complianceScore = 100
                   /\ findByDocumentId(complianceIssues', d) = {}
              ELSE \/ Persisted(res, documents', complianceIssues', d)
                   \/ /\ procs[d].pc = "replace"
                      /\ \E t \in {0, AdvanceStep} :
                            Persisted([res EXCEPT !.score =
                                          evaluate(documents[d], t).score],
                                      documents', complianceIssues', d)]_vars

\* processDocument has answered for a file without metadata whose upload
\* failed: score 100 in the row, no issue stored
C25_Witness ==
    \E d \in DocIds :
        /\ procs[d].pc = "done"
        /\ procs[d].response.error = "thrown"
        /\ documents[d].sharepointDriveItemId = Null
        /\ documents[d].complianceScore = 100
        /\ evaluate(documents[d], now).score < 100
        /\ findByDocumentId(complianceIssues, d) = {}

(***************************************************************************)
(* How many issues of a type a document has open.                          *)
(***************************************************************************)
OpenOfType(d, type) == {i \in OpenRows(complianceIssues, d) : i.type = type}

\* C26: a document has at most one open issue of each type other than
\* missing_metadata, and at most two open missing_metadata issues, which
\* then name different missing fields.
C26_OpenIssuesPerType ==
    \A d \in DocIds :
        /\ \A type \in IssueTypes \ {"missing_metadata"} :
              Cardinality(OpenOfType(d, type)) <= 1
        /\ Cardinality(OpenOfType(d, "missing_metadata")) <= 2
        /\ \A i, j \in OpenOfType(d, "missing_metadata") :
              i # j => /\ "details" \in DOMAIN i /\ "details" \in DOMAIN j
                       /\ i.details.missingField # j.details.missingField

\* after a periodic check that created an issue, a document with its two
\* missing_metadata issues and its link_expired issue open
C26_Witness ==
    /\ \E r \in RunIds : runs[r].pc = "done" /\ runs[r].response.issuesFound > 0
    /\ \E d \in DocIds :
          /\ Cardinality(OpenOfType(d, "missing_metadata")) = 2
          /\ Cardinality(OpenOfType(d, "link_expired")) = 1

\* a periodic check has ended that created nothing for a document whose
\* category issue was resolved and whose confidentiality issue is open
C26_WitnessOneLeft ==
    /\ \E r \in RunIds : runs[r].pc = "done"
    /\ \E d \in DocIds :
          /\ Cardinality(OpenOfType(d, "missing_metadata")) = 1
          /\ \E i \in findByDocumentId(complianceIssues, d) :
                i.type = "missing_metadata" /\ i.status = "resolved"

(***************************************************************************)
(* runPeriodicCheck requested again as the first request is answered: the  *)
(* second invocation (r2) begins from the tables the first (r1) left, at   *)
(* the same clock value.                                                   *)
(***************************************************************************)
NextTwice ==
    \/ \E upload \in Uploads : ProcStart(upload)
    \/ \E d \in DocIds : ProcLogUploaded(d)
    \/ \E d \in DocIds : ProcLogIssue(d)
    \/ \E d \in DocIds, ok \in BOOLEAN : ProcUpload(d, ok)
    \/ \E d \in DocIds, ok \in BOOLEAN : ProcCreateLink(d, ok)
    \/ \E d \in DocIds : ProcLogSynced(d)
    \/ \E d \in DocIds, ok \in BOOLEAN : ProcReplace(d, ok)
    \/ \E d \in DocIds : ProcReturn(d)
    \/ \E id \in IssueIds : ResolveIssue(id)
    \/ \E id \in IssueIds : AcknowledgeIssue(id)
    \/ Advance
    \/ ~RunBusy /\ RunStart("r1")
    \/ runs["r1"].pc = "done" /\ RunStart("r2")
    \/ \E r \in RunIds : RunPersist(r)
    \/ \E r \in RunIds : RunScore(r)
    \/ RunReturn("r2")
    \/ runs["r2"].pc = "idle" /\ RunReturn("r1")

SpecTwice == Init /\ [][NextTwice]_vars

\* r2 was begun when r1 had ended and has ended too
RanTwice == runs["r1"].pc = "done" /\ runs["r2"].pc = "done"

\* C27: a periodic check run again from the tables the first run left, at
\* the same clock value, creates no issue (issuesFound = 0) and leaves
\* every stored score, and every row, as it was.
C27_Idempotent ==
    RanTwice =>
        /\ runs["r2"].response.issuesFound = 0
        /\ runs["r2"].start.now = runs["r1"].start.now
        /\ complianceIssues = runs["r2"].start.complianceIssues
        /\ documents = runs["r2"].start.documents

\* both runs have ended; the first created issues for two documents, one of
\* which had an issue resolved before
C27_Witness ==
    /\ RanTwice
    /\ runs["r1"].response.documentsChecked = 2
    /\ runs["r1"].response.issuesFound > 1
    /\ Handled # {}

(***************************************************************************)
(* Two periodic checks under way together: the rows they create.           *)
(***************************************************************************)
Underway(r) == runs[r].pc \in {"persist", "score", "done"}

\* the rows of d with content x inserted since the run r began
CreatedSince(r, d, x) ==
    {i \in complianceIssues \ runs[r].start.complianceIssues :
        i.documentId = d /\ ContentOf(i) = x}

\* how often one invocation alone, begun when r began, creates content x
CreatedAlone(r, d, x) ==
    Len(SelectSeq(AddedByRun(runs[r].start, d), LAMBDA y : y = x))

\* C28: while two invocations are under way together, the rows created
\* since the earlier one began, by either, are rows that one invocation
\* alone creates, each once and open; when both have ended they are exactly
\* the rows of one invocation alone.
C28_NoDoubleCreate ==
    \A r, q \in RunIds :
        /\ r # q
        /\ Underway(r)
        /\ Underway(q)
        /\ runs[r].start.complianceIssues \subseteq runs[q].start.complianceIssues
        => \A d \in DocIds :
             \A x \in Contents(runs[r].start, d) :
                /\ Cardinality(CreatedSince(r, d, x)) <= CreatedAlone(r, d, x)
                /\ \A i \in CreatedSince(r, d, x) : i.status = "open"
                /\ runs[r].pc = "done" /\ runs[q].pc = "done" =>
                      Cardinality(CreatedSince(r, d, x)) = CreatedAlone(r, d, x)

\* both invocations have ended, begun from the same tables; each created
\* one of the two issues there were to create
C28_Witness ==
    /\ runs["r1"].pc = "done"
    /\ runs["r2"].pc = "done"
    /\ runs["r1"].start = runs["r2"].start
    /\ runs["r1"].response.issuesFound + runs["r2"].response.issuesFound = 2
    /\ runs["r1"].response.issuesFound = 1

(***************************************************************************)
(* documentRepository.getStats: what the CRM card reports for one record.   *)
(***************************************************************************)
\* the rows WHERE hubspot_object_type = ? AND hubspot_object_id = ?
statsRows(docs, objectId) ==
    {d \in DOMAIN docs : docs[d] # Null /\ docs[d].hubspotObjectId = objectId}

RECURSIVE sumScores(_, _)
sumScores(docs, ds) ==
    IF ds = {} THEN 0
    ELSE LET d == CHOOSE x \in ds : TRUE
         IN docs[d].complianceScore + sumScores(docs, ds \ {d})

\* Math.round of the quotient sum / count of two naturals: halves go up
roundedQuotient(sum, count) == (2 * sum + count) \div (2 * count)

\* COALESCE(AVG(compliance_score), 0): the average of no row is 0
getStatsMutNoDefault(docs, rows, objectId) ==
    LET ds == statsRows(docs, objectId)
    IN [totalDocuments |-> Cardinality(ds),
        averageComplianceScore |->
            IF ds = {} THEN 0
            ELSE roundedQuotient(sumScores(docs, ds), Cardinality(ds)),
        issueCount |->
            Cardinality({i \in rows : i.documentId \in ds /\ i.status = "open"})]

\* COUNT(*), COALESCE(AVG(compliance_score), 100) rounded, open issues
getStats(docs, rows, objectId) ==
    LET ds == statsRows(docs, objectId)
    IN [totalDocuments |-> Cardinality(ds),
        averageComplianceScore |->
            IF ds = {} THEN 100
            ELSE roundedQuotient(sumScores(docs, ds), Cardinality(ds)),
        issueCount |->
            Cardinality({i \in rows : i.documentId \in ds /\ i.status = "open"})]

\* getCRMCardData: complianceScore: stats.averageComplianceScore
cardScore(objectId) ==
    getStats(documents, complianceIssues, objectId).averageComplianceScore

ScoresInRange ==
    /\ \A d \in DocIds :
          documents[d] # Null => documents[d].complianceScore \in 0..100
    /\ \A o \in ObjectIds :
          /\ cardScore(o) \in 0..100
          /\ statsRows(documents, o) = {} => cardScore(o) = 100

CreatedWithFullScore ==
    \A d \in DocIds :
        documents[d] = Null /\ documents'[d] # Null =>
            documents'[d].complianceScore = 100

\* C29: every stored compliance score is an integer in 0..100, a row is
\* created with 100, and the average getStats reports for a CRM record is in
\* 0..100 and is 100 when the record has no document.
C29_ScoresInRange == [](ScoresInRange) /\ [][CreatedWithFullScore]_vars

\* a record with two documents whose scores average to a half, rounded up,
\* beside a record with one document and a record with none
C29_Witness ==
    /\ \E o \in ObjectIds :
          /\ Cardinality(statsRows(documents, o)) = 2
          /\ sumScores(documents, statsRows(documents, o)) % 2 = 1
          /\ cardScore(o) * 2 = sumScores(documents, statsRows(documents, o)) + 1
          /\ cardScore(o) < 100
    /\ \E o \in ObjectIds : statsRows(documents, o) = {}

(***************************************************************************)
(* The status of an issue, and what the periodic check does about an issue  *)
(* that was acknowledged or resolved.                                       *)
(***************************************************************************)
\* the rows of document d with type t
OfType(rows, d, t) == {i \in findByDocumentId(rows, d) : i.type = t}

NeverReopened ==
    \A i \in complianceIssues :
        i.status # "open" =>
            \A j \in complianceIssues' : j.id = i.id => j.status # "open"

RecreatedWhenHandled ==
    \A r \in RunIds :
        PersistStep(r) =>
            LET d == runs[r].docs[runs[r].i].id
            IN \A k \in DOMAIN Detected(runs[r]) :
                  LET t == Detected(runs[r])[k].type
                  IN /\ OfType(complianceIssues, d, t) # {}
                     /\ \A i \in OfType(complianceIssues, d, t) :
                           i.status # "open"
                     => \E j \in OfType(complianceIssues', d, t) :
                           /\ j.status = "open"
                           /\ \A i \in complianceIssues : i.id # j.id

\* C30: no step sets the status of an issue that is not open back to open;
\* and when the periodic check comes to a document for which it detects a
\* type whose stored issues are all acknowledged or resolved, it creates a
\* new open issue of that type.
C30_OnlyAwayFromOpen == [][NeverReopened /\ RecreatedWhenHandled]_vars

\* a document whose only issue of a type was acknowledged or resolved has a
\* second, open, issue of that type, created later
C30_Witness ==
    \E i, j \in complianceIssues :
        /\ i.documentId = j.documentId
        /\ i.type = j.type
        /\ i.status \in {"acknowledged", "resolved"}
        /\ j.status = "open"
        /\ j.id[2] > i.id[2]
        /\ OfType(complianceIssues, i.documentId, i.type) = {i, j}

====
